---- MODULE Spec2Model ----
(***************************************************************************)
(* Melchi: the per-table CDC cycle driven by DataIngestionManager          *)
(* (src/src/data_ingestion_manager.py) over a stream-capable source        *)
(* (src/src/warehouses/snowflake_warehouse.py) and a storage target        *)
(* (src/src/warehouses/duckdb_warehouse.py).                               *)
(*                                                                         *)
(* One table is replicated.  The source keeps a change log of the base     *)
(* table; the stream exposes the log entries after the committed offset.   *)
(* A change is identified by its position in the log (its cid).  A target  *)
(* row is the insert change that produced it, so the target table is a bag *)
(* of cids; the effective key of a row is the key of that change.          *)
(* Each warehouse has a committed state and, while a transaction is open,  *)
(* a working copy that commit publishes and rollback/close discards.       *)
(***************************************************************************)
EXTENDS Integers, Sequences, FiniteSets, TLC

\* ---------------------------------------------------------------- bounds
MaxChanges == 3
MaxCycles == 2
MaxKey == 2
MaxTables == 3
MaxOpen == 4
MaxSetupTables == 2
MaxOps == 2

Keys == 1..MaxKey
CIds == 1..MaxChanges
Policies == {"FULL_REFRESH", "STANDARD_STREAM", "APPEND_ONLY_STREAM"}

\* table_info without a "cdc_type" key
NoKey == "(no key)"

\* values of table_info["cdc_type"]: the stream policies in mixed and in upper
\* case, a value that is no policy, and the empty string
RawCdcTypes ==
    {NoKey, "Standard_Stream", "APPEND_ONLY_STREAM", "UNSUPPORTED_TYPE", ""}

\* str.upper() over the configured values
Upper(s) ==
    CASE s = "full_refresh"    -> "FULL_REFRESH"
      [] s = "Standard_Stream" -> "STANDARD_STREAM"
      [] OTHER                 -> s

\* get_cdc_type: the key defaults to FULL_REFRESH when absent, the value is
\* upper-cased and a value outside the three policies raises ValueError
get_cdc_type(raw) ==
    LET cdc_type == IF raw = NoKey THEN "FULL_REFRESH" ELSE Upper(raw)
    IN [raises |-> cdc_type \notin {"FULL_REFRESH", "STANDARD_STREAM", "APPEND_ONLY_STREAM"},
        val |-> cdc_type]

\* SnowflakeWarehouse.get_supported_cdc_types
get_supported_cdc_types == {"STANDARD_STREAM", "APPEND_ONLY_STREAM", "FULL_REFRESH"}

VARIABLES
    \* source warehouse
    log,          \* changes made to the base table, in order: [act, key]
    srcOffset,    \* committed stream offset: log entries already consumed
    staging,      \* committed rows of the stream processing table: [cid, etl]
    srcConn,      \* SnowflakeWarehouse.connection is not None
    srcOpen,      \* Snowflake connections opened by connect and not closed
    srcTxn,       \* a source transaction is open
    wOffset,      \* stream offset inside the open source transaction
    wStaging,     \* staging rows inside the open source transaction
    \* target warehouse
    tgtRows,      \* committed rows of the target table: cid -> multiplicity
    etlEvents,    \* committed etl_events rows of the table (their etl_ids)
    updatedAt,    \* committed captured_tables.updated_at (logical clock)
    tgtConn,      \* DuckDBWarehouse.connection is not None
    tgtOpen,      \* DuckDB connections opened by connect and not closed
    tgtTxn,       \* a target transaction is open
    wRows, wEvents, wUpdatedAt,   \* the same three inside the open transaction
    \* coordinator
    raw_cdc_type, \* table_info["cdc_type"] as configured, NoKey when the key is absent
    policy,       \* get_cdc_type(table_info): the configured value normalised
    handler,      \* "none" | "full" | "stream": the handler last entered
    via,          \* the cycle was entered through sync_table
    pc,           \* position inside the handler, "idle" when none runs
    etl_id,       \* uuid4() of the cycle
    handle_deletes,
    completed,    \* completed_transaction_etl_ids
    delQ, insQ,   \* batches not yet consumed from the lazy sequences
    cycles,       \* cycles started so far
    \* history of the current / last cycle
    pre,          \* committed state of both sides when the cycle began; quiet: no
                  \* SourceChangeAny since; rerun: none between the begin of the
                  \* cycle before and the begin of this one
    failedAt,     \* step that raised inside try, "none" when none did
    tCommitted,   \* target.commit_transaction succeeded in this cycle
    sCommitCalled,\* source.commit_transaction was invoked in this cycle
    purgeRan,     \* _remove_successfully_transferred_records was invoked
    delExtracted, \* get_streamed_deletes was invoked
    applyLog,     \* "D"/"I" per batch applied to the target, in order
    swallowed,    \* some batch failed inside the target and was skipped (sticky)
    handlerRaised,\* an exception escaped the handler
    outcome, prevOutcome,  \* "none" | "running" | "success" | "failed" | "half" | "rejected"
    prevHd,       \* handle_deletes of the previous cycle
    chainPre,     \* tgt and src of pre of the cycle preceding the last one
    txnApplied,   \* changes applied inside the open target transaction
    applied,      \* changes whose effect reached the committed target
    \* sync_data (src/src/data_sync.py): one invocation over the table list
    sd_pc,        \* position inside sync_data, "off" when it is not running
    tables,       \* length of the list get_tables_to_transfer() returned
    cdc_streams,  \* source config cdc_strategy == "cdc_streams"
    table_idx,    \* index of table_info in the for loop, 0 before the loop
    started,      \* tables whose try block was entered
    inTxn,        \* tables synced inside the open target transaction
    tblCommitted, \* tables whose target transaction committed
    cleaned,      \* tables whose source cleanup ran
    failedTable,  \* table whose try block raised, 0 when none did
    sd_failedAt,  \* step of sync_data that raised, "none" when none did
    sd_raised,    \* the exception left sync_data
    \* source setup (SnowflakeWarehouse.setup_environment): one invocation
    ss_pc,        \* position inside _setup_source_environment, "off" when not running
    tables_to_transfer, \* the table list: [cdc, geo] per table, the index is the table
    ss_idx,       \* index of table_info in the creation loop
    problems,     \* the list find_problems returned: indices of the tables with a problem
    streams,      \* streams of the change tracking schema: [table, append_only]
    processing_tables,  \* stream processing tables: [table, columns] (columns added)
    ss_error,     \* "none" | "NoTables" | "ValueError" | "statement": what was raised
    \* schema synchronisation (src/src/schema_sync.py) and the target's DDL methods
    ts_pc,        \* position inside transfer_schema, "idle" between calls, "off" when unused
    ts_tables,    \* the tables argument: [cdc, pk] per table, the index is the table
    ts_idx,       \* index of table_info in the for loop
    replace_existing,   \* config["replace_existing"] of the target during the call
    tgtSchema,    \* committed target tables, captured_tables and source_columns
    wSchema,      \* the same inside the open target transaction
    ts_error,     \* step of transfer_schema that raised, "none" when none did
    ts_raised,    \* an exception left transfer_schema
    ts_pre,       \* tgtSchema when transfer_schema was called
    last_ct,      \* the last create_table call: its arguments and how it ended
    ts_ops,       \* calls made so far
    \* functions of the warehouses called on their own
    last_call     \* the last such call: function, arguments and outcome; fn "none" when none

srcData == <<srcOffset, staging, srcTxn, wOffset, wStaging>>
srcVars == <<log, srcConn, srcOpen, srcData>>
tgtData == <<tgtRows, etlEvents, updatedAt, tgtTxn, wRows, wEvents, wUpdatedAt>>
tgtVars == <<tgtConn, tgtOpen, tgtData>>
syncVars == <<sd_pc, tables, cdc_streams, table_idx, started, inTxn, tblCommitted, cleaned,
              failedTable, sd_failedAt, sd_raised>>
ssVars == <<ss_pc, tables_to_transfer, ss_idx, problems, streams, processing_tables, ss_error>>
tsVars == <<ts_pc, ts_tables, ts_idx, replace_existing, tgtSchema, wSchema, ts_error, ts_raised,
           ts_pre, last_ct, ts_ops>>
static == <<raw_cdc_type, policy, syncVars, ssVars, tsVars, last_call>>
cycleId == <<static, handler, via, etl_id, handle_deletes, cycles>>
coVars == <<cycleId, pc, completed, delQ, insQ>>
chain == <<pre, outcome, prevOutcome, prevHd, chainPre>>
hiVars == <<chain, failedAt, tCommitted, sCommitCalled, purgeRan, delExtracted, applyLog, swallowed, handlerRaised,
            txnApplied, applied>>
vars == <<srcVars, tgtVars, coVars, hiVars>>

\* ---------------------------------------------------------------- helpers
EmptyRows == [c \in CIds |-> 0]

KeyOf(c) == log[c].key

\* cids of a set in ascending order
RECURSIVE SortedSeq(_)
SortedSeq(S) ==
    IF S = {} THEN <<>>
    ELSE LET m == CHOOSE x \in S : \A y \in S : x <= y
         IN <<m>> \o SortedSeq(S \ {m})

\* rows of the source base table: inserts not followed by a delete of their key
BaseRows ==
    {c \in 1..Len(log) :
        /\ log[c].act = "INSERT"
        /\ \A d \in (c+1)..Len(log) : ~(log[d].act = "DELETE" /\ log[d].key = log[c].key)}

TargetState == [rows |-> tgtRows, events |-> etlEvents, upd |-> updatedAt]
SourceState == [off |-> srcOffset, stg |-> staging]
\* ---------------------------------------------------------------- control flow
\* the try block with the two commits exchanged
StreamNext_SourceCommitFirst(p, hd) ==
    CASE p = "t_connect"   -> "s_connect"
      [] p = "s_connect"   -> "t_begin"
      [] p = "t_begin"     -> "s_begin"
      [] p = "s_begin"     -> "get_etl_ids"
      [] p = "get_etl_ids" -> "purge"
      [] p = "purge"       -> "drain"
      [] p = "drain"       -> "retag"
      [] p = "retag"       -> IF hd THEN "get_deletes" ELSE "get_inserts"
      [] p = "get_deletes" -> "del_loop"
      [] p = "del_loop"    -> "get_inserts"
      [] p = "get_inserts" -> "ins_loop"
      [] p = "ins_loop"    -> "trackers"
      [] p = "trackers"    -> "cleanup"
      [] p = "cleanup"     -> "s_commit"
      [] p = "s_commit"    -> "t_commit"
      [] p = "t_commit"    -> "finally_1"

\* the try block with the insert loop ahead of the delete loop
StreamNext_InsertsFirst(p, hd) ==
    CASE p = "t_connect"   -> "s_connect"
      [] p = "s_connect"   -> "t_begin"
      [] p = "t_begin"     -> "s_begin"
      [] p = "s_begin"     -> "get_etl_ids"
      [] p = "get_etl_ids" -> "purge"
      [] p = "purge"       -> "drain"
      [] p = "drain"       -> "retag"
      [] p = "retag"       -> "get_inserts"
      [] p = "get_inserts" -> "ins_loop"
      [] p = "ins_loop"    -> IF hd THEN "get_deletes" ELSE "trackers"
      [] p = "get_deletes" -> "del_loop"
      [] p = "del_loop"    -> "trackers"
      [] p = "trackers"    -> "t_commit"
      [] p = "t_commit"    -> "cleanup"
      [] p = "cleanup"     -> "s_commit"
      [] p = "s_commit"    -> "finally_1"

\* the try block with the trackers written after the target commit
StreamNext_TrackersAfterCommit(p, hd) ==
    CASE p = "t_connect"   -> "s_connect"
      [] p = "s_connect"   -> "t_begin"
      [] p = "t_begin"     -> "s_begin"
      [] p = "s_begin"     -> "get_etl_ids"
      [] p = "get_etl_ids" -> "purge"
      [] p = "purge"       -> "drain"
      [] p = "drain"       -> "retag"
      [] p = "retag"       -> IF hd THEN "get_deletes" ELSE "get_inserts"
      [] p = "get_deletes" -> "del_loop"
      [] p = "del_loop"    -> "get_inserts"
      [] p = "get_inserts" -> "ins_loop"
      [] p = "ins_loop"    -> "t_commit"
      [] p = "t_commit"    -> "trackers"
      [] p = "trackers"    -> "cleanup"
      [] p = "cleanup"     -> "s_commit"
      [] p = "s_commit"    -> "finally_1"

\* the try block with cleanup_source ahead of the target commit
StreamNext_CleanupFirst(p, hd) ==
    CASE p = "t_connect"   -> "s_connect"
      [] p = "s_connect"   -> "t_begin"
      [] p = "t_begin"     -> "s_begin"
      [] p = "s_begin"     -> "get_etl_ids"
      [] p = "get_etl_ids" -> "purge"
      [] p = "purge"       -> "drain"
      [] p = "drain"       -> "retag"
      [] p = "retag"       -> IF hd THEN "get_deletes" ELSE "get_inserts"
      [] p = "get_deletes" -> "del_loop"
      [] p = "del_loop"    -> "get_inserts"
      [] p = "get_inserts" -> "ins_loop"
      [] p = "ins_loop"    -> "trackers"
      [] p = "trackers"    -> "cleanup"
      [] p = "cleanup"     -> "t_commit"
      [] p = "t_commit"    -> "s_commit"
      [] p = "s_commit"    -> "finally_1"

\* the statements of the try block of _handle_stream_updates, in order
StreamNext(p, hd) ==
    CASE p = "t_connect"   -> "s_connect"
      [] p = "s_connect"   -> "t_begin"
      [] p = "t_begin"     -> "s_begin"
      [] p = "s_begin"     -> "get_etl_ids"
      [] p = "get_etl_ids" -> "purge"
      [] p = "purge"       -> "drain"
      [] p = "drain"       -> "retag"
      [] p = "retag"       -> IF hd THEN "get_deletes" ELSE "get_inserts"
      [] p = "get_deletes" -> "del_loop"
      [] p = "del_loop"    -> "get_inserts"
      [] p = "get_inserts" -> "ins_loop"
      [] p = "ins_loop"    -> "trackers"
      [] p = "trackers"    -> "t_commit"
      [] p = "t_commit"    -> "cleanup"
      [] p = "cleanup"     -> "s_commit"
      [] p = "s_commit"    -> "finally_1"

\* the statements of the try block of _handle_full_refresh, in order
FullNext(p) ==
    CASE p = "t_connect"   -> "s_connect"
      [] p = "s_connect"   -> "t_begin"
      [] p = "t_begin"     -> "truncate"
      [] p = "truncate"    -> "get_batches"
      [] p = "get_batches" -> "ins_loop"
      [] p = "ins_loop"    -> "trackers"
      [] p = "trackers"    -> "t_commit"
      [] p = "t_commit"    -> "finally_1"

NextPc == IF handler = "stream" THEN StreamNext(pc, handle_deletes) ELSE FullNext(pc)

TrySteps ==
    {"t_connect", "s_connect", "t_begin", "s_begin", "get_etl_ids", "purge", "drain",
     "retag", "get_deletes", "del_loop", "get_inserts", "ins_loop", "truncate",
     "get_batches", "trackers", "t_commit", "cleanup", "s_commit"}

\* sync_table: handle_deletes passed to _handle_stream_updates
HandleDeletesFor(cdc_type) == cdc_type = "APPEND_ONLY_STREAM"

\* ---------------------------------------------------------------- source operations
\* the changes made after offset off that the stream type records at all: an
\* append-only stream records inserts only
WindowCids(off) ==
    {c \in (off+1)..Len(log) : policy = "APPEND_ONLY_STREAM" => log[c].act = "INSERT"}

\* the row (its insert) that the DELETE at position d of the log removed
RowDeletedBy(d) ==
    CHOOSE c \in 0..(d-1) :
        /\ c > 0 => (log[c].act = "INSERT" /\ log[c].key = log[d].key)
        /\ \A e \in (c+1)..(d-1) : ~(log[e].act = "INSERT" /\ log[e].key = log[d].key)

\* rows the stream shows after offset off.  A standard stream shows the net
\* change: an INSERT for a row that is in the table now and was not at the
\* offset, a DELETE for a row that was in the table at the offset and is not
\* now; a row inserted and deleted again after the offset shows in neither form.
StreamCids(off) ==
    {c \in WindowCids(off) :
        policy = "STANDARD_STREAM" =>
            \/ log[c].act = "INSERT" /\ c \in BaseRows
            \/ log[c].act = "DELETE" /\ RowDeletedBy(c) \in 1..off}

\* the purge guarded by an off-by-one length test
PurgeNeeded_MoreThanOne(ids) == Cardinality(ids) > 1

\* prepare_stream_ingestion: the purge is issued for a non-empty list only
PurgeNeeded(ids) == ids # {}

\* _remove_successfully_transferred_records: DELETE ... WHERE etl_id in (ids)
RemoveTransferred(stg, ids) == {r \in stg : r.etl \notin ids}

\* INSERT INTO staging SELECT *, etl_id FROM stream
DrainStream(stg, off, id) == stg \cup {[cid |-> c, etl |-> id] : c \in StreamCids(off)}

\* the update writing a value other than the etl_id of the cycle
Retag_Cleared(stg, id) == {[cid |-> r.cid, etl |-> 0] : r \in stg}

\* UPDATE staging SET etl_id = etl_id (no WHERE clause)
Retag(stg, id) == {[cid |-> r.cid, etl |-> id] : r \in stg}

\* get_delete_batches_for_stream / get_insert_batches_for_stream
StagedWith(stg, a) == {r.cid : r \in {x \in stg : log[x.cid].act = a}}

\* cleanup_source leaving the staging rows in place
Truncated_Kept(stg) == stg

\* cleanup_source: TRUNCATE TABLE staging
Truncated(stg) == {}

\* ---------------------------------------------------------------- target operations
\* a DELETE without the WHERE clause
DeleteKeys_AllRows(rows, ks) == EmptyRows

\* DELETE FROM t WHERE (pk) IN (SELECT (pk) FROM batch)
DeleteKeys(rows, ks) ==
    [c \in CIds |-> IF c <= Len(log) /\ KeyOf(c) \in ks THEN 0 ELSE rows[c]]

\* INSERT INTO t (SELECT cols FROM batch)
InsertRow(rows, c) == [rows EXCEPT ![c] = @ + 1]

\* a rollback that publishes the work of the transaction
RolledBack_KeepsWork(committed, working) == working

\* connection.rollback(): what the table shows afterwards
RolledBack(committed, working) == committed

\* connection.commit(): what the table shows afterwards
Committed(committed, working) == working

\* ---------------------------------------------------------------- initial state
\* sync_data is not running
SyncOff ==
    /\ sd_pc = "off" /\ tables = 0 /\ cdc_streams = FALSE /\ table_idx = 0
    /\ started = {} /\ inTxn = {} /\ tblCommitted = {} /\ cleaned = {}
    /\ failedTable = 0 /\ sd_failedAt = "none" /\ sd_raised = FALSE

TableNames == {"ORDERS", "ITEMS"}

\* the table descriptors of a configuration: the database and, as one name,
\* the schema and the table
Descriptors == {"DB1", "DB2"} \X TableNames

\* DuckDBWarehouse.get_full_table_name: schema.table, without the database
get_full_table_name(table_info) == table_info[2]

\* a target database without tables and without the change tracking tables
EmptyDb ==
    [tbl |-> [i \in TableNames |-> <<>>],
     captured_tables |-> [exists |-> FALSE, rows |-> <<>>],
     source_columns |-> [exists |-> FALSE, rows |-> {}]]

\* last_ct records the last create_table call: the table, replace_existing,
\* whether the table existed and was registered in captured_tables before the
\* call, and the result
NoCall ==
    [table |-> "", replace |-> FALSE, existed |-> FALSE, registered |-> FALSE, result |-> "none"]

\* no source setup is running and none has run
SourceSetupOff ==
    /\ ss_pc = "off" /\ tables_to_transfer = <<>> /\ ss_idx = 0 /\ problems = <<>>
    /\ streams = {} /\ processing_tables = {} /\ ss_error = "none"

\* no schema synchronisation is running and none has run; the tables of the
\* target are looked at through their rows only
SchemaSyncOff ==
    /\ ts_pc = "off" /\ ts_tables = <<>> /\ ts_idx = 0 /\ replace_existing = FALSE
    /\ tgtSchema = <<>> /\ wSchema = <<>>
    /\ ts_error = "none" /\ ts_raised = FALSE /\ ts_pre = <<>>
    /\ last_ct = NoCall /\ ts_ops = 0

SetupOff == SourceSetupOff /\ SchemaSyncOff

\* both warehouses disconnected and no cycle running, after n successful
\* cycles over an empty source table
CycleInitAfter(n) ==
    /\ log = <<>> /\ srcOffset = 0 /\ staging = {} /\ srcConn = FALSE /\ srcTxn = FALSE
    /\ srcOpen = 0 /\ tgtOpen = 0
    /\ wOffset = 0 /\ wStaging = {}
    /\ tgtRows = EmptyRows /\ etlEvents = 1..n /\ updatedAt = n
    /\ tgtConn = FALSE /\ tgtTxn = FALSE
    /\ last_call = [fn |-> "none"]
    /\ wRows = EmptyRows /\ wEvents = {} /\ wUpdatedAt = 0
    /\ handler = "none" /\ via = FALSE /\ pc = "idle" /\ etl_id = n
    /\ handle_deletes = FALSE /\ completed = {} /\ delQ = <<>> /\ insQ = <<>>
    /\ cycles = n
    /\ pre = [tgt |-> [rows |-> EmptyRows, events |-> {}, upd |-> 0],
              src |-> [off |-> 0, stg |-> {}], quiet |-> FALSE, rerun |-> FALSE]
    /\ chainPre = [tgt |-> [rows |-> EmptyRows, events |-> {}, upd |-> 0],
                   src |-> [off |-> 0, stg |-> {}]]
    /\ failedAt = "none" /\ tCommitted = FALSE /\ sCommitCalled = FALSE
    /\ purgeRan = FALSE /\ delExtracted = FALSE
    /\ applyLog = <<>> /\ swallowed = FALSE /\ handlerRaised = FALSE
    /\ outcome = "none" /\ prevOutcome = "none" /\ prevHd = FALSE
    /\ txnApplied = {} /\ applied = {}

\* both warehouses as constructed, no cycle of the coordinator started
CycleInit == CycleInitAfter(0)

Init ==
    /\ CycleInit
    /\ raw_cdc_type \in RawCdcTypes
    /\ policy = get_cdc_type(raw_cdc_type).val
    /\ SyncOff /\ SetupOff

\* ---------------------------------------------------------------- environment
\* A row of the base table is inserted or deleted between two cycles.  Effective
\* keys are unique among the live rows.  A standard stream reports net changes,
\* so a row inserted and deleted again since the stream offset never shows up
\* in it: such a pair is not generated.  Key values matter only up to equality,
\* so a key never used before is always the least such key.
SourceChange ==
    /\ pc = "idle"
    /\ Len(log) < MaxChanges
    /\ \E a \in {"INSERT", "DELETE"}, k \in Keys :
          /\ a = "INSERT" =>
                /\ \A c \in BaseRows : KeyOf(c) # k
                /\ k > 1 => \E i \in 1..Len(log) : log[i].key = k - 1
          /\ a = "DELETE" =>
                \E c \in BaseRows :
                    /\ KeyOf(c) = k
                    /\ policy = "STANDARD_STREAM" => c <= srcOffset
          /\ log' = Append(log, [act |-> a, key |-> k])
    /\ UNCHANGED <<srcConn, srcOpen, srcData, tgtVars, coVars, hiVars>>

\* Any insert or delete of a row between two cycles, a delete of a row inserted
\* after the stream offset included.  The change is marked in pre.
SourceChangeAny ==
    /\ pc = "idle"
    /\ Len(log) < MaxChanges
    /\ \E a \in {"INSERT", "DELETE"}, k \in Keys :
          /\ a = "INSERT" =>
                /\ \A c \in BaseRows : KeyOf(c) # k
                /\ k > 1 => \E i \in 1..Len(log) : log[i].key = k - 1
          /\ a = "DELETE" => \E c \in BaseRows : KeyOf(c) = k
          /\ log' = Append(log, [act |-> a, key |-> k])
    /\ pre' = [pre EXCEPT !.quiet = FALSE, !.rerun = FALSE]
    /\ UNCHANGED <<srcConn, srcOpen, srcData, tgtVars, coVars, outcome, prevOutcome, prevHd,
                   chainPre, failedAt, tCommitted, sCommitCalled, purgeRan, delExtracted,
                   applyLog, swallowed, handlerRaised, txnApplied, applied>>

\* ---------------------------------------------------------------- entry points
\* the etl_id of the previous cycle used again
NewEtlId_Reused == etl_id

\* etl_id = uuid4(): a value no earlier cycle had
NewEtlId == cycles + 1

BeginCycle(h, hd, v) ==
    /\ pc = "idle"
    /\ cycles < MaxCycles
    /\ handler' = h /\ via' = v /\ handle_deletes' = hd
    /\ pc' = "t_connect"
    /\ cycles' = cycles + 1
    /\ etl_id' = NewEtlId
    /\ completed' = {} /\ delQ' = <<>> /\ insQ' = <<>>
    /\ pre' = [tgt |-> TargetState, src |-> SourceState, quiet |-> TRUE,
               rerun |-> pre.quiet]
    /\ chainPre' = [tgt |-> pre.tgt, src |-> pre.src]
    /\ prevOutcome' = outcome /\ outcome' = "running"
    /\ prevHd' = handle_deletes
    /\ failedAt' = "none" /\ tCommitted' = FALSE /\ sCommitCalled' = FALSE
    /\ purgeRan' = FALSE /\ delExtracted' = FALSE
    /\ applyLog' = <<>> /\ handlerRaised' = FALSE
    /\ txnApplied' = {}
    /\ UNCHANGED <<static, swallowed, applied, srcVars, tgtVars>>

\* the ValueError of sync_table leaves it before either handler is entered
Rejected ==
    /\ pc = "idle"
    /\ outcome' = "rejected"
    /\ UNCHANGED <<srcVars, tgtVars, coVars, pre, prevOutcome, prevHd, chainPre,
                   failedAt, tCommitted, sCommitCalled, purgeRan, delExtracted, applyLog,
                   swallowed, handlerRaised, txnApplied, applied>>

\* sync_table entering a handler without looking at the policy
sync_table_Unvalidated ==
    IF policy = "FULL_REFRESH"
    THEN BeginCycle("full", FALSE, TRUE)
    ELSE BeginCycle("stream", HandleDeletesFor(policy), TRUE)

\* DataIngestionManager.sync_table
sync_table ==
    LET r == get_cdc_type(raw_cdc_type)
    IN IF r.raises \/ Upper(r.val) \notin get_supported_cdc_types
       THEN Rejected
       ELSE IF Upper(r.val) = "FULL_REFRESH"
            THEN BeginCycle("full", FALSE, TRUE)
            ELSE BeginCycle("stream", HandleDeletesFor(Upper(r.val)), TRUE)

\* DataIngestionManager._handle_stream_updates(table_info), handle_deletes defaulted
handle_stream_updates ==
    /\ policy \in {"STANDARD_STREAM", "APPEND_ONLY_STREAM"}
    /\ BeginCycle("stream", TRUE, FALSE)

\* ---------------------------------------------------------------- steps of the try block
hiCycle == <<chain, failedAt, tCommitted, sCommitCalled, handlerRaised, applied>>
hiPrep == <<purgeRan, delExtracted, applyLog, swallowed, txnApplied>>

\* DuckDBWarehouse.connect
target_connect ==
    /\ pc = "t_connect"
    /\ tgtConn' = TRUE /\ tgtOpen' = tgtOpen + 1
    /\ pc' = NextPc
    /\ UNCHANGED <<tgtData, srcVars, cycleId, completed, delQ, insQ, hiVars>>

\* SnowflakeWarehouse.connect
source_connect ==
    /\ pc = "s_connect"
    /\ srcConn' = TRUE /\ srcOpen' = srcOpen + 1
    /\ pc' = NextPc
    /\ UNCHANGED <<log, srcData, tgtVars, cycleId, completed, delQ, insQ, hiVars>>

\* DuckDBWarehouse.begin_transaction
target_begin_transaction ==
    /\ pc = "t_begin"
    /\ tgtTxn' = TRUE
    /\ wRows' = tgtRows /\ wEvents' = etlEvents /\ wUpdatedAt' = updatedAt
    /\ pc' = NextPc
    /\ UNCHANGED <<tgtRows, etlEvents, updatedAt, tgtConn, tgtOpen, srcVars, cycleId,
                   completed, delQ, insQ, hiVars>>

\* SnowflakeWarehouse.begin_transaction
source_begin_transaction ==
    /\ pc = "s_begin"
    /\ srcTxn' = TRUE
    /\ wOffset' = srcOffset /\ wStaging' = staging
    /\ pc' = NextPc
    /\ UNCHANGED <<log, srcConn, srcOpen, srcOffset, staging, tgtVars, cycleId,
                   completed, delQ, insQ, hiVars>>

\* target.get_etl_ids(table_info)
get_etl_ids ==
    /\ pc = "get_etl_ids"
    /\ completed' = wEvents
    /\ pc' = NextPc
    /\ UNCHANGED <<srcVars, tgtVars, cycleId, delQ, insQ, hiVars>>

\* prepare_stream_ingestion, first statement: purge of transferred records
prepare_purge ==
    /\ pc = "purge"
    /\ IF PurgeNeeded(completed)
       THEN /\ wStaging' = RemoveTransferred(wStaging, completed)
            /\ purgeRan' = TRUE
       ELSE UNCHANGED <<wStaging, purgeRan>>
    /\ pc' = NextPc
    /\ UNCHANGED <<log, srcConn, srcOpen, srcOffset, staging, srcTxn, wOffset, tgtVars, cycleId,
                   completed, delQ, insQ, hiCycle, delExtracted, applyLog, swallowed, txnApplied>>

\* prepare_stream_ingestion, second statement: the stream is drained into staging
prepare_drain ==
    /\ pc = "drain"
    /\ wStaging' = DrainStream(wStaging, wOffset, etl_id)
    /\ wOffset' = Len(log)
    /\ pc' = NextPc
    /\ UNCHANGED <<log, srcConn, srcOpen, srcOffset, staging, srcTxn, tgtVars, cycleId,
                   completed, delQ, insQ, hiVars>>

\* prepare_stream_ingestion, third statement: every staging row gets the etl_id
prepare_retag ==
    /\ pc = "retag"
    /\ wStaging' = Retag(wStaging, etl_id)
    /\ pc' = NextPc
    /\ UNCHANGED <<log, srcConn, srcOpen, srcOffset, staging, srcTxn, wOffset, tgtVars, cycleId,
                   completed, delQ, insQ, hiVars>>

\* source.get_streamed_deletes(table_info)
get_streamed_deletes ==
    /\ pc = "get_deletes"
    /\ delExtracted' = TRUE
    /\ delQ' = SortedSeq(StagedWith(wStaging, "DELETE"))
    /\ pc' = NextPc
    /\ UNCHANGED <<srcVars, tgtVars, cycleId, completed, insQ, hiCycle, purgeRan,
                   applyLog, swallowed, txnApplied>>

\* one iteration of the delete loop: target.process_stream_deletes
process_stream_deletes ==
    /\ pc = "del_loop"
    /\ delQ # <<>>
    /\ wRows' = DeleteKeys(wRows, {KeyOf(Head(delQ))})
    /\ delQ' = Tail(delQ)
    /\ applyLog' = Append(applyLog, "D")
    /\ txnApplied' = txnApplied \cup {Head(delQ)}
    /\ UNCHANGED <<tgtRows, etlEvents, updatedAt, tgtTxn, wEvents, wUpdatedAt, tgtConn, tgtOpen,
                   srcVars, cycleId, pc, completed, insQ, hiCycle, purgeRan,
                   delExtracted, swallowed>>

\* _process_delete_batches: the statement failed, the batch is skipped
delete_batch_skipped ==
    /\ pc = "del_loop"
    /\ delQ # <<>>
    /\ delQ' = Tail(delQ)
    /\ swallowed' = TRUE
    /\ UNCHANGED <<srcVars, tgtVars, cycleId, pc, completed, insQ, hiCycle, purgeRan,
                   delExtracted, applyLog, txnApplied>>

delete_loop_done ==
    /\ pc = "del_loop"
    /\ delQ = <<>>
    /\ pc' = NextPc
    /\ UNCHANGED <<srcVars, tgtVars, cycleId, completed, delQ, insQ, hiVars>>

\* source.get_streamed_inserts(table_info)
get_streamed_inserts ==
    /\ pc = "get_inserts"
    /\ insQ' = SortedSeq(StagedWith(wStaging, "INSERT"))
    /\ pc' = NextPc
    /\ UNCHANGED <<srcVars, tgtVars, cycleId, completed, delQ, hiCycle, purgeRan,
                   delExtracted, applyLog, swallowed, txnApplied>>

\* truncate_table taking effect outside the transaction
truncate_table_Autocommit ==
    /\ pc = "truncate"
    /\ wRows' = EmptyRows
    /\ tgtRows' = EmptyRows
    /\ pc' = NextPc
    /\ UNCHANGED <<etlEvents, updatedAt, tgtTxn, wEvents, wUpdatedAt, tgtConn, tgtOpen,
                   srcVars, cycleId, completed, delQ, insQ, hiVars>>

\* target.truncate_table(table_info)
truncate_table ==
    /\ pc = "truncate"
    /\ wRows' = EmptyRows
    /\ pc' = NextPc
    /\ UNCHANGED <<tgtRows, etlEvents, updatedAt, tgtTxn, wEvents, wUpdatedAt, tgtConn, tgtOpen,
                   srcVars, cycleId, completed, delQ, insQ, hiVars>>

\* source.get_batches_for_full_refresh(table_info)
get_batches_for_full_refresh ==
    /\ pc = "get_batches"
    /\ insQ' = SortedSeq(BaseRows)
    /\ pc' = NextPc
    /\ UNCHANGED <<srcVars, tgtVars, cycleId, completed, delQ, hiCycle, purgeRan,
                   delExtracted, applyLog, swallowed, txnApplied>>

\* one iteration of the insert loop: target.process_stream_inserts / insert_batch
process_stream_inserts ==
    /\ pc = "ins_loop"
    /\ insQ # <<>>
    /\ wRows' = InsertRow(wRows, Head(insQ))
    /\ insQ' = Tail(insQ)
    /\ applyLog' = Append(applyLog, "I")
    /\ txnApplied' = txnApplied \cup {Head(insQ)}
    /\ UNCHANGED <<tgtRows, etlEvents, updatedAt, tgtTxn, wEvents, wUpdatedAt, tgtConn, tgtOpen,
                   srcVars, cycleId, pc, completed, delQ, hiCycle, purgeRan,
                   delExtracted, swallowed>>

\* _process_insert_batches: the statement failed, the batch is skipped
insert_batch_skipped ==
    /\ pc = "ins_loop"
    /\ insQ # <<>>
    /\ insQ' = Tail(insQ)
    /\ swallowed' = TRUE
    /\ UNCHANGED <<srcVars, tgtVars, cycleId, pc, completed, delQ, hiCycle, purgeRan,
                   delExtracted, applyLog, txnApplied>>

insert_loop_done ==
    /\ pc = "ins_loop"
    /\ insQ = <<>>
    /\ pc' = NextPc
    /\ UNCHANGED <<srcVars, tgtVars, cycleId, completed, delQ, insQ, hiVars>>

\* target.update_cdc_trackers(table_info, etl_id)
update_cdc_trackers ==
    /\ pc = "trackers"
    /\ wUpdatedAt' = wUpdatedAt + 1
    /\ wEvents' = wEvents \cup {etl_id}
    /\ pc' = NextPc
    /\ UNCHANGED <<tgtRows, etlEvents, updatedAt, tgtTxn, wRows, tgtConn, tgtOpen,
                   srcVars, cycleId, completed, delQ, insQ, hiVars>>

\* target.commit_transaction()
target_commit_transaction ==
    /\ pc = "t_commit"
    /\ tgtRows' = Committed(tgtRows, wRows)
    /\ etlEvents' = Committed(etlEvents, wEvents)
    /\ updatedAt' = Committed(updatedAt, wUpdatedAt)
    /\ tgtTxn' = FALSE
    /\ tCommitted' = TRUE
    /\ applied' = applied \cup txnApplied
    /\ pc' = NextPc
    /\ UNCHANGED <<wRows, wEvents, wUpdatedAt, tgtConn, tgtOpen, srcVars, cycleId, completed,
                   delQ, insQ, chain, failedAt, sCommitCalled, handlerRaised, hiPrep>>

\* source.cleanup_source(table_info)
cleanup_source ==
    /\ pc = "cleanup"
    /\ wStaging' = Truncated(wStaging)
    /\ pc' = NextPc
    /\ UNCHANGED <<log, srcConn, srcOpen, srcOffset, staging, srcTxn, wOffset, tgtVars, cycleId,
                   completed, delQ, insQ, hiVars>>

\* source.commit_transaction()
source_commit_transaction ==
    /\ pc = "s_commit"
    /\ srcOffset' = Committed(srcOffset, wOffset)
    /\ staging' = Committed(staging, wStaging)
    /\ srcTxn' = FALSE
    /\ sCommitCalled' = TRUE
    /\ pc' = NextPc
    /\ UNCHANGED <<log, srcConn, srcOpen, wOffset, wStaging, tgtVars, cycleId, completed,
                   delQ, insQ, chain, failedAt, tCommitted, handlerRaised, applied, hiPrep>>

\* a call of the try block raises; the statement has no effect
CanRaise ==
    /\ pc = "purge" => PurgeNeeded(completed)
    /\ pc = "del_loop" => delQ # <<>>
    /\ pc = "ins_loop" => insQ # <<>>

step_raises ==
    /\ pc \in TrySteps
    /\ CanRaise
    /\ failedAt' = pc
    /\ sCommitCalled' = (sCommitCalled \/ pc = "s_commit")
    /\ pc' = "x_t_rollback"
    /\ UNCHANGED <<srcVars, tgtVars, cycleId, completed, delQ, insQ, chain, tCommitted,
                   handlerRaised, applied, hiPrep>>

\* DuckDBWarehouse.connect: the connection is opened, then INSTALL/LOAD raises
target_connect_raises ==
    /\ pc = "t_connect"
    /\ tgtConn' = TRUE /\ tgtOpen' = tgtOpen + 1
    /\ failedAt' = pc
    /\ pc' = "x_t_rollback"
    /\ UNCHANGED <<tgtData, srcVars, cycleId, completed, delQ, insQ, chain, tCommitted,
                   sCommitCalled, handlerRaised, applied, hiPrep>>

\* SnowflakeWarehouse.connect: the connection is opened, then USE ROLE/WAREHOUSE raises
source_connect_raises ==
    /\ pc = "s_connect"
    /\ srcConn' = TRUE /\ srcOpen' = srcOpen + 1
    /\ failedAt' = pc
    /\ pc' = "x_t_rollback"
    /\ UNCHANGED <<log, srcData, tgtVars, cycleId, completed, delQ, insQ, chain, tCommitted,
                   sCommitCalled, handlerRaised, applied, hiPrep>>

\* ---------------------------------------------------------------- except block
AfterTargetRollback == IF handler = "stream" THEN "x_s_rollback" ELSE "finally_1"

\* the except block ending in a bare raise after the target rollback
target_rollback_transaction_Reraises ==
    /\ pc = "x_t_rollback"
    /\ tgtConn /\ tgtTxn
    /\ tgtRows' = RolledBack(tgtRows, wRows)
    /\ etlEvents' = RolledBack(etlEvents, wEvents)
    /\ updatedAt' = RolledBack(updatedAt, wUpdatedAt)
    /\ tgtTxn' = FALSE
    /\ handlerRaised' = TRUE
    /\ pc' = "finally_1"
    /\ UNCHANGED <<wRows, wEvents, wUpdatedAt, tgtConn, tgtOpen, srcVars, cycleId, completed,
                   delQ, insQ, chain, failedAt, tCommitted, sCommitCalled, applied, hiPrep>>

\* target.rollback_transaction() with a transaction open
target_rollback_transaction ==
    /\ pc = "x_t_rollback"
    /\ tgtConn /\ tgtTxn
    /\ tgtRows' = RolledBack(tgtRows, wRows)
    /\ etlEvents' = RolledBack(etlEvents, wEvents)
    /\ updatedAt' = RolledBack(updatedAt, wUpdatedAt)
    /\ tgtTxn' = FALSE
    /\ pc' = AfterTargetRollback
    /\ UNCHANGED <<wRows, wEvents, wUpdatedAt, tgtConn, tgtOpen, srcVars, cycleId, completed,
                   delQ, insQ, hiVars>>

\* target.rollback_transaction() on a connection with no transaction: accepted
target_rollback_nothing ==
    /\ pc = "x_t_rollback"
    /\ tgtConn /\ ~tgtTxn
    /\ pc' = AfterTargetRollback
    /\ UNCHANGED <<srcVars, tgtVars, cycleId, completed, delQ, insQ, hiVars>>

\* target.rollback_transaction() raises: connection is None, or the engine
\* rejects a rollback without a transaction; the exception leaves the handler
target_rollback_raises ==
    /\ pc = "x_t_rollback"
    /\ ~tgtConn \/ ~tgtTxn
    /\ handlerRaised' = TRUE
    /\ pc' = "finally_1"
    /\ UNCHANGED <<srcVars, tgtVars, cycleId, completed, delQ, insQ, chain, failedAt,
                   tCommitted, sCommitCalled, applied, hiPrep>>

\* source.rollback_transaction()
source_rollback_transaction ==
    /\ pc = "x_s_rollback"
    /\ srcConn
    /\ srcOffset' = RolledBack(srcOffset, wOffset)
    /\ staging' = RolledBack(staging, wStaging)
    /\ srcTxn' = FALSE
    /\ pc' = "finally_1"
    /\ UNCHANGED <<log, srcConn, srcOpen, wOffset, wStaging, tgtVars, cycleId, completed,
                   delQ, insQ, hiVars>>

\* source.rollback_transaction() raises: connection is None
source_rollback_raises ==
    /\ pc = "x_s_rollback"
    /\ ~srcConn
    /\ handlerRaised' = TRUE
    /\ pc' = "finally_1"
    /\ UNCHANGED <<srcVars, tgtVars, cycleId, completed, delQ, insQ, chain, failedAt,
                   tCommitted, sCommitCalled, applied, hiPrep>>

\* ---------------------------------------------------------------- finally block
\* a disconnect that closes the cursor and leaves the connection open
SourceDisconnect_CursorOnly ==
    /\ UNCHANGED <<srcVars, tgtVars>>

\* SnowflakeWarehouse.disconnect: closing discards an open transaction
SourceDisconnect ==
    /\ srcConn' = FALSE /\ srcOpen' = (IF srcConn THEN srcOpen - 1 ELSE srcOpen)
    /\ srcTxn' = FALSE
    /\ srcOffset' = (IF srcTxn THEN RolledBack(srcOffset, wOffset) ELSE srcOffset)
    /\ staging' = (IF srcTxn THEN RolledBack(staging, wStaging) ELSE staging)
    /\ UNCHANGED <<log, wOffset, wStaging, tgtVars>>

\* DuckDBWarehouse.disconnect: closing discards an open transaction
TargetDisconnect ==
    /\ tgtConn' = FALSE /\ tgtOpen' = (IF tgtConn THEN tgtOpen - 1 ELSE tgtOpen)
    /\ tgtTxn' = FALSE
    /\ tgtRows' = (IF tgtTxn THEN RolledBack(tgtRows, wRows) ELSE tgtRows)
    /\ etlEvents' = (IF tgtTxn THEN RolledBack(etlEvents, wEvents) ELSE etlEvents)
    /\ updatedAt' = (IF tgtTxn THEN RolledBack(updatedAt, wUpdatedAt) ELSE updatedAt)
    /\ UNCHANGED <<wRows, wEvents, wUpdatedAt, srcVars>>

Outcome == IF failedAt = "none" THEN "success" ELSE IF tCommitted THEN "half" ELSE "failed"

Returns ==
    /\ pc' = "idle"
    /\ outcome' = Outcome
    /\ completed' = {} /\ delQ' = <<>> /\ insQ' = <<>>
    /\ UNCHANGED <<cycleId, pre, prevOutcome, prevHd, chainPre,
                   failedAt, tCommitted, sCommitCalled, handlerRaised, applied, hiPrep>>

StaysInFinally ==
    /\ pc' = "finally_2"
    /\ UNCHANGED <<cycleId, completed, delQ, insQ, hiVars>>

stream_source_disconnect ==
    /\ pc = "finally_1" /\ handler = "stream"
    /\ SourceDisconnect
    /\ StaysInFinally

stream_target_disconnect ==
    /\ pc = "finally_2" /\ handler = "stream"
    /\ TargetDisconnect
    /\ Returns

full_target_disconnect ==
    /\ pc = "finally_1" /\ handler = "full"
    /\ TargetDisconnect
    /\ StaysInFinally

full_source_disconnect ==
    /\ pc = "finally_2" /\ handler = "full"
    /\ SourceDisconnect
    /\ Returns

\* ---------------------------------------------------------------- specification
\* the steps of the coordinator
CycleNext ==
    \/ sync_table
    \/ handle_stream_updates
    \/ target_connect
    \/ source_connect
    \/ target_begin_transaction
    \/ source_begin_transaction
    \/ get_etl_ids
    \/ prepare_purge
    \/ prepare_drain
    \/ prepare_retag
    \/ get_streamed_deletes
    \/ process_stream_deletes
    \/ delete_batch_skipped
    \/ delete_loop_done
    \/ get_streamed_inserts
    \/ truncate_table
    \/ get_batches_for_full_refresh
    \/ process_stream_inserts
    \/ insert_batch_skipped
    \/ insert_loop_done
    \/ update_cdc_trackers
    \/ target_commit_transaction
    \/ cleanup_source
    \/ source_commit_transaction
    \/ step_raises
    \/ target_connect_raises
    \/ source_connect_raises
    \/ target_rollback_transaction
    \/ target_rollback_nothing
    \/ target_rollback_raises
    \/ source_rollback_transaction
    \/ source_rollback_raises
    \/ stream_source_disconnect
    \/ stream_target_disconnect
    \/ full_target_disconnect
    \/ full_source_disconnect

Next ==
    \/ SourceChange
    \/ CycleNext

Spec == Init /\ [][Next]_vars

\* the coordinator over a source table that changes in any way
NextAny ==
    \/ SourceChangeAny
    \/ CycleNext

SpecAny == Init /\ [][NextAny]_vars

TypeOK ==
    /\ pc \in TrySteps \cup {"idle", "x_t_rollback", "x_s_rollback", "finally_1", "finally_2"}
    /\ Len(log) <= MaxChanges
    /\ srcOffset <= Len(log)
    /\ \A r \in staging \cup wStaging : r.cid \in 1..Len(log)

\* ---------------------------------------------------------------- sync_data
\* src/src/data_sync.py: one invocation over the list of tables.  The
\* coordinator of the sections above is not involved: sync_data drives the two
\* warehouses itself, one target transaction per table.
sdFrame == <<log, srcOffset, staging, srcTxn, wOffset, wStaging,
             tgtRows, etlEvents, updatedAt, wRows, wEvents, wUpdatedAt,
             raw_cdc_type, policy, ssVars, tsVars, last_call, handler, via, etl_id, handle_deletes, cycles,
             pc, completed, delQ, insQ, hiVars>>

sdLoopVars == <<tables, cdc_streams, table_idx, started>>
sdData == <<inTxn, tblCommitted, cleaned>>
sdFail == <<failedTable, sd_failedAt, sd_raised>>

InitSync ==
    /\ CycleInit
    /\ raw_cdc_type = "STANDARD_STREAM" /\ policy = "STANDARD_STREAM"
    /\ SetupOff
    /\ sd_pc = "s_connect"
    /\ tables \in 1..MaxTables
    /\ cdc_streams \in BOOLEAN
    /\ table_idx = 0
    /\ started = {} /\ inTxn = {} /\ tblCommitted = {} /\ cleaned = {}
    /\ failedTable = 0 /\ sd_failedAt = "none" /\ sd_raised = FALSE

\* the statements of the inner try block, in order
TableNext(p) ==
    CASE p = "t_begin"      -> "get_cdc_data"
      [] p = "get_cdc_data" -> "sync_table"
      [] p = "sync_table"   -> "t_commit"
      [] p = "t_commit"     -> "cleanup"
      [] p = "cleanup"      -> "loop"

TableSteps == {"t_begin", "get_cdc_data", "sync_table", "t_commit", "cleanup"}

\* where control goes after the except block of the per-table try: line 28
\* raises, which leaves the for loop for the finally block
AfterTableFailure == "fin_source"

\* line 10: source_warehouse.connect()
sd_source_connect ==
    /\ sd_pc = "s_connect"
    /\ srcConn' = TRUE /\ srcOpen' = srcOpen + 1
    /\ sd_pc' = "t_connect"
    /\ UNCHANGED <<tgtConn, tgtOpen, tgtTxn, sdLoopVars, sdData, sdFail, sdFrame>>

\* line 11: target_warehouse.connect()
sd_target_connect ==
    /\ sd_pc = "t_connect"
    /\ tgtConn' = TRUE /\ tgtOpen' = tgtOpen + 1
    /\ sd_pc' = "loop"
    /\ UNCHANGED <<srcConn, srcOpen, tgtTxn, sdLoopVars, sdData, sdFail, sdFrame>>

\* lines 10-11: a connect raises; the outer try has no except, only finally
sd_connect_raises ==
    /\ sd_pc \in {"s_connect", "t_connect"}
    /\ sd_failedAt' = sd_pc
    /\ sd_raised' = TRUE
    /\ sd_pc' = "fin_source"
    /\ UNCHANGED <<srcConn, srcOpen, tgtConn, tgtOpen, tgtTxn, sdLoopVars, sdData, failedTable, sdFrame>>

\* lines 15-17: the next table_info of the list enters its try block
sd_next_table ==
    /\ sd_pc = "loop"
    /\ cdc_streams /\ table_idx < tables
    /\ table_idx' = table_idx + 1
    /\ started' = started \cup {table_idx + 1}
    /\ sd_pc' = "t_begin"
    /\ UNCHANGED <<srcConn, srcOpen, tgtConn, tgtOpen, tgtTxn, tables, cdc_streams, sdData, sdFail, sdFrame>>

\* lines 15-16: the strategy is not cdc_streams, or the list is exhausted
sd_loop_done ==
    /\ sd_pc = "loop"
    /\ ~cdc_streams \/ table_idx = tables
    /\ sd_pc' = "fin_source"
    /\ UNCHANGED <<srcConn, srcOpen, tgtConn, tgtOpen, tgtTxn, sdLoopVars, sdData, sdFail, sdFrame>>

\* line 18: target_warehouse.begin_transaction()
sd_begin_transaction ==
    /\ sd_pc = "t_begin"
    /\ tgtTxn' = TRUE
    /\ inTxn' = {}
    /\ sd_pc' = TableNext(sd_pc)
    /\ UNCHANGED <<srcConn, srcOpen, tgtConn, tgtOpen, sdLoopVars, tblCommitted, cleaned, sdFail, sdFrame>>

\* line 19: cdc_df = source_warehouse.get_cdc_data(table_info)
sd_get_cdc_data ==
    /\ sd_pc = "get_cdc_data"
    /\ sd_pc' = TableNext(sd_pc)
    /\ UNCHANGED <<srcConn, srcOpen, tgtConn, tgtOpen, tgtTxn, sdLoopVars, sdData, sdFail, sdFrame>>

\* line 20: target_warehouse.sync_table(table_info, cdc_df)
sd_sync_table ==
    /\ sd_pc = "sync_table"
    /\ inTxn' = inTxn \cup {table_idx}
    /\ sd_pc' = TableNext(sd_pc)
    /\ UNCHANGED <<srcConn, srcOpen, tgtConn, tgtOpen, tgtTxn, sdLoopVars, tblCommitted, cleaned, sdFail, sdFrame>>

\* line 21: target_warehouse.commit_transaction()
sd_commit_transaction ==
    /\ sd_pc = "t_commit"
    /\ tblCommitted' = tblCommitted \cup inTxn
    /\ inTxn' = {}
    /\ tgtTxn' = FALSE
    /\ sd_pc' = TableNext(sd_pc)
    /\ UNCHANGED <<srcConn, srcOpen, tgtConn, tgtOpen, sdLoopVars, cleaned, sdFail, sdFrame>>

\* line 22: source_warehouse.cleanup_cdc_for_table(table_info)
sd_cleanup_cdc_for_table ==
    /\ sd_pc = "cleanup"
    /\ cleaned' = cleaned \cup {table_idx}
    /\ sd_pc' = TableNext(sd_pc)
    /\ UNCHANGED <<srcConn, srcOpen, tgtConn, tgtOpen, tgtTxn, sdLoopVars, inTxn, tblCommitted, sdFail, sdFrame>>

\* lines 18-22: a statement of the per-table try block raises
sd_table_raises ==
    /\ sd_pc \in TableSteps
    /\ failedTable' = table_idx
    /\ sd_failedAt' = sd_pc
    /\ sd_pc' = "x_s_rollback"
    /\ UNCHANGED <<srcConn, srcOpen, tgtConn, tgtOpen, tgtTxn, sdLoopVars, sdData, sd_raised, sdFrame>>

\* line 25: source_warehouse.rollback_transaction()
sd_source_rollback ==
    /\ sd_pc = "x_s_rollback"
    /\ sd_pc' = "x_t_rollback"
    /\ UNCHANGED <<srcConn, srcOpen, tgtConn, tgtOpen, tgtTxn, sdLoopVars, sdData, sdFail, sdFrame>>

\* lines 26-28: target_warehouse.rollback_transaction(), print, raise
sd_target_rollback ==
    /\ sd_pc = "x_t_rollback"
    /\ tgtTxn' = FALSE
    /\ inTxn' = {}
    /\ sd_raised' = (AfterTableFailure = "fin_source")
    /\ sd_pc' = AfterTableFailure
    /\ UNCHANGED <<srcConn, srcOpen, tgtConn, tgtOpen, sdLoopVars, tblCommitted, cleaned, failedTable,
                   sd_failedAt, sdFrame>>

\* line 57: source_warehouse.disconnect()
sd_source_disconnect ==
    /\ sd_pc = "fin_source"
    /\ srcConn' = FALSE /\ srcOpen' = (IF srcConn THEN srcOpen - 1 ELSE srcOpen)
    /\ sd_pc' = "fin_target"
    /\ UNCHANGED <<tgtConn, tgtOpen, tgtTxn, sdLoopVars, sdData, sdFail, sdFrame>>

\* line 58: target_warehouse.disconnect()
sd_target_disconnect ==
    /\ sd_pc = "fin_target"
    /\ tgtConn' = FALSE /\ tgtOpen' = (IF tgtConn THEN tgtOpen - 1 ELSE tgtOpen)
    /\ tgtTxn' = FALSE
    /\ inTxn' = {}
    /\ sd_pc' = "done"
    /\ UNCHANGED <<srcConn, srcOpen, sdLoopVars, tblCommitted, cleaned, sdFail, sdFrame>>

NextSync ==
    \/ sd_source_connect
    \/ sd_target_connect
    \/ sd_connect_raises
    \/ sd_next_table
    \/ sd_loop_done
    \/ sd_begin_transaction
    \/ sd_get_cdc_data
    \/ sd_sync_table
    \/ sd_commit_transaction
    \/ sd_cleanup_cdc_for_table
    \/ sd_table_raises
    \/ sd_source_rollback
    \/ sd_target_rollback
    \/ sd_source_disconnect
    \/ sd_target_disconnect

SpecSync == InitSync /\ [][NextSync]_vars

\* ---------------------------------------------------------------- properties
AtRest == pc = "idle"

\* C1: in every cycle source.commit_transaction is invoked only after
\* target.commit_transaction of the same cycle has succeeded.
C1_SourceCommitAfterTargetCommit == sCommitCalled => tCommitted

C1_Witness ==
    /\ AtRest /\ handler = "stream" /\ outcome = "success"
    /\ sCommitCalled /\ tCommitted

\* C2: at rest, no committed staging row carries an etl_id that is present in
\* the target's etl_events.
C2_StagingNotInEtlEvents == AtRest => \A r \in staging : r.etl \notin etlEvents

\* at rest after a half-committed cycle that had staged and applied rows
C2_Witness ==
    /\ AtRest /\ handler = "stream" /\ outcome = "half"
    /\ etl_id \in etlEvents
    /\ applyLog # <<>>

\* C3: in a stream cycle the purge of transferred records runs exactly when
\* etl_events held a completed etl_id at the start of the cycle, and from the
\* moment the stream is about to be drained no staging row in the transaction is
\* tagged with a completed etl_id; nothing is drained or extracted before that.
PostPurge ==
    {"drain", "retag", "get_deletes", "del_loop", "get_inserts", "ins_loop",
     "trackers", "t_commit", "cleanup", "s_commit"}

C3_PurgeBeforeDrain ==
    (handler = "stream" /\ pc \in PostPurge) =>
        /\ purgeRan <=> (pre.tgt.events # {})
        /\ \A r \in wStaging : r.etl \notin pre.tgt.events
        /\ pc = "drain" =>
              /\ wOffset = srcOffset
              /\ ~delExtracted /\ delQ = <<>> /\ insQ = <<>> /\ applyLog = <<>>

C3_Witness ==
    /\ handler = "stream" /\ pc = "drain"
    /\ pre.tgt.events # {} /\ purgeRan
    /\ StreamCids(wOffset) # {}

\* C4: as long as the target transaction of a cycle has not committed, the
\* committed target state (rows, captured_tables.updated_at, etl_events) is the
\* state the cycle started from; this covers every cycle that fails before
\* target.commit.
C4_TargetUnchangedBeforeCommit == ~tCommitted => TargetState = pre.tgt

\* a full refresh over a non-empty target failed at commit after truncating
\* and inserting
C4_Witness ==
    /\ AtRest /\ handler = "full" /\ outcome = "failed"
    /\ failedAt = "t_commit"
    /\ applyLog # <<>>
    /\ pre.tgt.rows # EmptyRows

\* C5: a stream cycle that fails before target.commit leaves no transaction open
\* and leaves the committed staging contents, the committed stream offset and the
\* committed target state as they were when the cycle began.
C5_FailedStreamCycleInvisible ==
    (handler = "stream" /\ ~tCommitted) =>
        /\ SourceState = pre.src
        /\ TargetState = pre.tgt
        /\ AtRest => (~srcTxn /\ ~tgtTxn)

\* a stream cycle that had drained and applied rows failed at target.commit
C5_Witness ==
    /\ AtRest /\ handler = "stream" /\ outcome = "failed"
    /\ failedAt = "t_commit"
    /\ applyLog # <<>>
    /\ Len(log) > srcOffset

\* target rows after one cycle that applies the stream rows in (a, b] exactly once
SingleCycle(rows, a, b, hd) ==
    LET delta == {c \in WindowCids(a) : c <= b}
        dels == {KeyOf(c) : c \in {d \in delta : log[d].act = "DELETE"}}
        ins == {c \in delta : log[c].act = "INSERT"}
    IN [c \in CIds |->
          (IF hd /\ c <= Len(log) /\ KeyOf(c) \in dels THEN 0 ELSE rows[c])
          + (IF c \in ins THEN 1 ELSE 0)]

\* C6: after a cycle that failed between target.commit and source.commit and a
\* following successful cycle, the target rows are those of one successful cycle
\* over the combined delta.
C6_HalfCommitThenSuccess ==
    (/\ AtRest /\ handler = "stream"
     /\ outcome = "success" /\ prevOutcome = "half"
     /\ prevHd = handle_deletes /\ ~swallowed)
    => tgtRows = SingleCycle(chainPre.tgt.rows, chainPre.src.off, srcOffset, handle_deletes)

\* C7: after a successful stream cycle every change the stream has handed out
\* (every log entry behind the committed offset that the stream shows) has been
\* applied to the committed target.
C7_AtLeastOnce ==
    (AtRest /\ handler = "stream" /\ outcome = "success" /\ ~swallowed)
    => \A c \in WindowCids(0) : c <= srcOffset => c \in applied

\* C8: a cycle of an APPEND_ONLY_STREAM table started through sync_table never
\* extracts delete batches and never applies one.
C8_AppendOnlyNoDeletePath ==
    (policy = "APPEND_ONLY_STREAM" /\ handler = "stream" /\ via)
    => (~delExtracted /\ \A i \in DOMAIN applyLog : applyLog[i] # "D")

\* C9: after a successful cycle of a STANDARD_STREAM table started through
\* sync_table, no row that was on the target before the cycle and whose key the
\* cycle's staging snapshot holds with action DELETE is still on the target.
C9_StandardDeletesApplied ==
    (/\ AtRest /\ handler = "stream" /\ via /\ policy = "STANDARD_STREAM"
     /\ outcome = "success" /\ ~swallowed)
    => LET delta == (pre.src.off + 1)..srcOffset
           dels == {KeyOf(c) : c \in {d \in delta : log[d].act = "DELETE"}}
       IN \A c \in 1..Len(log) :
             (pre.tgt.rows[c] > 0 /\ KeyOf(c) \in dels /\ c \notin delta) => tgtRows[c] = 0

\* C10: within a cycle no delete batch is applied to the target after an insert
\* batch, and when the first insert batch is applied every extracted delete
\* batch has been consumed.
C10_DeletesBeforeInserts ==
    /\ \A i, j \in DOMAIN applyLog : (applyLog[i] = "I" /\ applyLog[j] = "D") => j < i
    /\ (\E i \in DOMAIN applyLog : applyLog[i] = "I") => delQ = <<>>

\* a STANDARD_STREAM cycle applied a delete batch and then an insert batch
C10_Witness ==
    /\ policy = "STANDARD_STREAM" /\ handler = "stream"
    /\ \E i, j \in DOMAIN applyLog : i < j /\ applyLog[i] = "D" /\ applyLog[j] = "I"

\* steps of the try block during which the target transaction is open
InTargetTxn ==
    IF handler = "stream"
    THEN {"s_begin", "get_etl_ids", "purge", "drain", "retag", "get_deletes", "del_loop",
          "get_inserts", "ins_loop", "trackers"}
    ELSE {"truncate", "get_batches", "ins_loop", "trackers"}

\* C11 (as stated): a cycle in which a step failed never returns normally; the
\* error leaves the handler.
C11_FailedCyclePropagates == (AtRest /\ failedAt # "none") => handlerRaised

\* C11 (amended): a cycle in which a step failed while the target transaction
\* was open rolls back, disconnects both sides and returns normally to its
\* caller: the except block prints the error and does not raise it again.
C11_FailedCycleReturnsNormally ==
    (AtRest /\ failedAt \in InTargetTxn) =>
        /\ ~handlerRaised
        /\ ~srcConn /\ ~tgtConn /\ ~srcTxn /\ ~tgtTxn
        /\ TargetState = pre.tgt

C11_Witness ==
    /\ AtRest /\ handler = "stream" /\ failedAt = "ins_loop"
    /\ outcome = "failed" /\ ~handlerRaised

C13_DisconnectedOnExit ==
    AtRest => (~srcConn /\ ~tgtConn /\ ~srcTxn /\ ~tgtTxn)

\* a cycle whose source connect opened the connection and then raised, and
\* whose except block raised in turn
C13_Witness ==
    /\ AtRest /\ failedAt = "s_connect" /\ handlerRaised
    /\ ~srcConn /\ ~tgtConn

CycleSucceeded == pc \in {"finally_1", "finally_2"} /\ failedAt = "none"

\* the rows of the source table, each once
SourceRows == [c \in CIds |-> IF c \in BaseRows THEN 1 ELSE 0]

\* C16: after a successful cycle of a FULL_REFRESH table the target rows are
\* the rows of the source table.
C16_FullRefreshMirrorsSource ==
    (handler = "full" /\ CycleSucceeded) => tgtRows = SourceRows

RECURSIVE RowCount(_, _)
RowCount(rows, S) ==
    IF S = {} THEN 0
    ELSE LET c == CHOOSE x \in S : TRUE
         IN rows[c] + RowCount(rows, S \ {c})

\* C17: after a successful cycle of an APPEND_ONLY_STREAM table the target
\* holds at least as many rows as the source table, and no delete batch was
\* applied.
C17_AppendOnlyNeverShrinks ==
    (policy = "APPEND_ONLY_STREAM" /\ handler = "stream" /\ CycleSucceeded) =>
        /\ RowCount(tgtRows, CIds) >= Cardinality(BaseRows)
        /\ \A i \in DOMAIN applyLog : applyLog[i] # "D"

\* C18: as long as the target transaction of a stream cycle has not committed,
\* cleanup_source has not been reached, and the staging table inside the source
\* transaction still holds every row drained from the stream.
C18_CleanupAfterTargetCommit ==
    (handler = "stream" /\ ~tCommitted) =>
        /\ pc \notin {"cleanup", "s_commit"}
        /\ failedAt \notin {"cleanup", "s_commit"}
        /\ (srcTxn /\ wOffset = Len(log)) =>
              \A c \in StreamCids(srcOffset) : \E r \in wStaging : r.cid = c

\* cleanup_source has truncated the rows the cycle had staged and applied
C18_Witness ==
    /\ handler = "stream" /\ pc = "s_commit"
    /\ tCommitted /\ applyLog # <<>>
    /\ wStaging = {}

\* C19: after a successful STANDARD_STREAM cycle whose stream held a DELETE of
\* a key and a later INSERT of the same key, the inserted row is on the target.
C19_DeleteThenInsertPresent ==
    (policy = "STANDARD_STREAM" /\ handler = "stream" /\ CycleSucceeded) =>
        \A c \in (pre.src.off + 1)..Len(log) :
            (/\ log[c].act = "INSERT"
             /\ \E d \in (pre.src.off + 1)..(c - 1) :
                    log[d].act = "DELETE" /\ log[d].key = log[c].key)
            => tgtRows[c] >= 1

\* C20: after a successful STANDARD_STREAM cycle whose stream window covers an
\* INSERT of a key followed by the DELETE of that row, the row is not on the
\* target.
C20_InsertThenDeleteAbsent ==
    (policy = "STANDARD_STREAM" /\ handler = "stream" /\ CycleSucceeded) =>
        \A c, d \in (pre.src.off + 1)..Len(log) :
            (/\ c < d
             /\ log[c].act = "INSERT"
             /\ log[d].act = "DELETE" /\ RowDeletedBy(d) = c)
            => tgtRows[c] = 0

\* C21: a successful cycle that follows a successful cycle with no change of the
\* source between the two leaves the rows of the target table as the first
\* cycle left them, under every policy.
C21_RerunLeavesTargetData ==
    (/\ AtRest /\ cycles >= 2
     /\ outcome = "success" /\ prevOutcome = "success"
     /\ pre.rerun)
    => tgtRows = pre.tgt.rows

\* C22: sync_table on a table whose configured policy, letter case ignored and
\* an absent key read as FULL_REFRESH, is none of the three policies raises
\* while no connection was opened, no transaction begun and no statement issued
\* on either warehouse; a table whose policy is one of the three is not refused.
InvalidPolicy == raw_cdc_type # NoKey /\ Upper(raw_cdc_type) \notin Policies

C22_InvalidPolicyRaisesBeforeAnyWork ==
    /\ InvalidPolicy =>
          /\ outcome \in {"none", "rejected"}
          /\ handler = "none" /\ pc = "idle" /\ cycles = 0
          /\ ~srcConn /\ ~tgtConn /\ ~srcTxn /\ ~tgtTxn
          /\ TargetState = [rows |-> EmptyRows, events |-> {}, upd |-> 0]
          /\ SourceState = [off |-> 0, stg |-> {}]
    /\ outcome = "rejected" => InvalidPolicy

C22_Witness == outcome = "rejected" /\ raw_cdc_type = "UNSUPPORTED_TYPE"

\* batches the source hands to the target in the current cycle: every row of
\* the base table in a full refresh, the streamed inserts and, when deletes are
\* handled, the streamed deletes in a stream cycle
BatchesOfCycle ==
    IF handler = "full" THEN BaseRows
    ELSE {c \in StreamCids(pre.src.off) : log[c].act = "INSERT" \/ handle_deletes}

\* C30: a failure of an insert batch or of a delete batch inside the target is
\* raised out of the batch-processing call, so no cycle commits the target with
\* only some of its batches applied: a cycle that has committed the target has
\* applied every batch it was handed.
C30_NoPartialBatchesCommitted ==
    (pc # "idle" /\ tCommitted) => BatchesOfCycle \subseteq txnApplied

connRest == <<log, srcOffset, staging, wOffset, wStaging,
              tgtRows, etlEvents, updatedAt, wRows, wEvents, wUpdatedAt, coVars, hiVars>>

InitConnect ==
    /\ CycleInit
    /\ raw_cdc_type = "FULL_REFRESH" /\ policy = "FULL_REFRESH"
    /\ SyncOff /\ SetupOff

\* DuckDBWarehouse.connect: self.connection is bound to a new connection; the
\* connection it was bound to is not closed
duckdb_connect ==
    /\ tgtOpen < MaxOpen
    /\ tgtConn' = TRUE /\ tgtOpen' = tgtOpen + 1
    /\ tgtTxn' = FALSE
    /\ UNCHANGED <<srcConn, srcOpen, srcTxn, connRest>>

\* SnowflakeWarehouse.connect: self.connection and self.cursor are bound to a
\* new connection; the connection they were bound to is not closed
snowflake_connect ==
    /\ srcOpen < MaxOpen
    /\ srcConn' = TRUE /\ srcOpen' = srcOpen + 1
    /\ srcTxn' = FALSE
    /\ UNCHANGED <<tgtConn, tgtOpen, tgtTxn, connRest>>

\* DuckDBWarehouse.begin_transaction
duckdb_begin_transaction ==
    /\ tgtConn /\ ~tgtTxn
    /\ tgtTxn' = TRUE
    /\ UNCHANGED <<tgtConn, tgtOpen, srcConn, srcOpen, srcTxn, connRest>>

\* SnowflakeWarehouse.begin_transaction
snowflake_begin_transaction ==
    /\ srcConn /\ ~srcTxn
    /\ srcTxn' = TRUE
    /\ UNCHANGED <<tgtConn, tgtOpen, tgtTxn, srcConn, srcOpen, connRest>>

\* DuckDBWarehouse.disconnect
duckdb_disconnect ==
    /\ TargetDisconnect
    /\ UNCHANGED <<coVars, hiVars>>

\* SnowflakeWarehouse.disconnect
snowflake_disconnect ==
    /\ SourceDisconnect
    /\ UNCHANGED <<coVars, hiVars>>

\* a connection no attribute of the warehouse refers to any more is closed by
\* the interpreter when it collects the object, which may be never
duckdb_collected ==
    /\ tgtOpen > (IF tgtConn THEN 1 ELSE 0)
    /\ tgtOpen' = tgtOpen - 1
    /\ UNCHANGED <<tgtConn, tgtTxn, srcConn, srcOpen, srcTxn, connRest>>

snowflake_collected ==
    /\ srcOpen > (IF srcConn THEN 1 ELSE 0)
    /\ srcOpen' = srcOpen - 1
    /\ UNCHANGED <<srcConn, srcTxn, tgtConn, tgtOpen, tgtTxn, connRest>>

NextConnect ==
    \/ duckdb_connect
    \/ snowflake_connect
    \/ duckdb_begin_transaction
    \/ snowflake_begin_transaction
    \/ duckdb_disconnect
    \/ snowflake_disconnect
    \/ duckdb_collected
    \/ snowflake_collected

SpecConnect == InitConnect /\ [][NextConnect]_vars

\* C28: connect is idempotent: whenever a warehouse is connected it holds
\* exactly one open connection, also after connect was called on it while it
\* was connected, and a warehouse that is not connected holds none.
C28_ConnectIdempotent ==
    /\ tgtOpen = (IF tgtConn THEN 1 ELSE 0)
    /\ srcOpen = (IF srcConn THEN 1 ELSE 0)

\* ---------------------------------------------------------------- source setup
\* SnowflakeWarehouse.setup_environment with warehouse_role SOURCE: one
\* invocation of _setup_source_environment over a list of tables.  Table i of
\* the list is the table named i.
coreVars == <<srcVars, tgtVars, raw_cdc_type, policy, syncVars, tsVars, last_call, handler, via, etl_id,
              handle_deletes, cycles, pc, completed, delQ, insQ, hiVars>>

\* a table_info of the list: its configured cdc_type and whether get_schema
\* shows a GEOMETRY or GEOGRAPHY column
TableInfos == [cdc : RawCdcTypes, geo : BOOLEAN]

RECURSIVE SeqsUpTo(_, _)
SeqsUpTo(S, n) ==
    IF n = 0 THEN {<<>>}
    ELSE LET shorter == SeqsUpTo(S, n - 1)
         IN shorter \cup {Append(q, x) : q \in {r \in shorter : Len(r) = n - 1}, x \in S}

InitSource ==
    /\ CycleInit
    /\ raw_cdc_type = "FULL_REFRESH" /\ policy = "FULL_REFRESH"
    /\ SyncOff /\ SchemaSyncOff
    /\ ss_pc = "check_empty"
    /\ tables_to_transfer \in SeqsUpTo(TableInfos, MaxSetupTables)
    /\ ss_idx = 0 /\ problems = <<>>
    /\ streams = {} /\ processing_tables = {} /\ ss_error = "none"

\* find_problems stopping at the first table that has a problem
RECURSIVE find_problems_FirstOnly(_, _)
find_problems_FirstOnly(tbls, i) ==
    IF i > Len(tbls) THEN <<>>
    ELSE LET r == get_cdc_type(tbls[i].cdc)
         IN IF r.raises \/ (r.val = "STANDARD_STREAM" /\ tbls[i].geo)
            THEN <<i>>
            ELSE find_problems_FirstOnly(tbls, i + 1)

\* find_problems: one entry per table whose cdc_type get_cdc_type refuses or
\* that is a STANDARD_STREAM table with a geometry or geography column
RECURSIVE find_problems(_, _)
find_problems(tbls, i) ==
    IF i > Len(tbls) THEN <<>>
    ELSE LET r == get_cdc_type(tbls[i].cdc)
             rest == find_problems(tbls, i + 1)
         IN IF r.raises THEN <<i>> \o rest
            ELSE IF r.val = "STANDARD_STREAM" /\ tbls[i].geo THEN <<i>> \o rest
            ELSE rest

\* line 381: an empty list raises
ss_no_tables ==
    /\ ss_pc = "check_empty"
    /\ ss_pc' = (IF tables_to_transfer = <<>> THEN "done" ELSE "find_problems")
    /\ ss_error' = (IF tables_to_transfer = <<>> THEN "NoTables" ELSE ss_error)
    /\ UNCHANGED <<tables_to_transfer, ss_idx, problems, streams, processing_tables, coreVars>>

\* lines 384-386: the problems of the whole list are collected and raised in
\* one ValueError
ss_find_problems ==
    /\ ss_pc = "find_problems"
    /\ problems' = find_problems(tables_to_transfer, 1)
    /\ ss_pc' = (IF problems' # <<>> THEN "done" ELSE "create")
    /\ ss_error' = (IF problems' # <<>> THEN "ValueError" ELSE ss_error)
    /\ ss_idx' = 1
    /\ UNCHANGED <<tables_to_transfer, streams, processing_tables, coreVars>>

\* table_info.get("cdc_type", "FULL_REFRESH").upper() in the creation loop
IsStreamTable(info) ==
    (IF info.cdc = NoKey THEN "FULL_REFRESH" ELSE Upper(info.cdc))
        \in {"STANDARD_STREAM", "APPEND_ONLY_STREAM"}

\* _create_stream_objects: the stream, the processing table and its added
\* columns, as far as n of the three groups of statements were executed
StreamObjects(i, info, n) ==
    [str |-> IF n >= 1 THEN {[table |-> i, append_only |-> info.cdc = "APPEND_ONLY_STREAM"]}
             ELSE {},
     tab |-> IF n >= 2 THEN {[table |-> i, columns |-> n >= 3]} ELSE {}]

\* lines 388-391, one iteration: stream objects for a stream table
ss_create_stream_objects ==
    /\ ss_pc = "create"
    /\ ss_idx <= Len(tables_to_transfer)
    /\ LET info == tables_to_transfer[ss_idx]
           made == StreamObjects(ss_idx, info, 3)
       IN /\ streams' = (IF IsStreamTable(info) THEN streams \cup made.str ELSE streams)
          /\ processing_tables' =
                (IF IsStreamTable(info) THEN processing_tables \cup made.tab
                 ELSE processing_tables)
    /\ ss_idx' = ss_idx + 1
    /\ UNCHANGED <<ss_pc, tables_to_transfer, problems, ss_error, coreVars>>

\* a statement of _create_stream_objects raises after n groups were executed
ss_create_raises ==
    /\ ss_pc = "create"
    /\ ss_idx <= Len(tables_to_transfer)
    /\ IsStreamTable(tables_to_transfer[ss_idx])
    /\ \E n \in 0..2 :
          LET made == StreamObjects(ss_idx, tables_to_transfer[ss_idx], n)
          IN /\ streams' = streams \cup made.str
             /\ processing_tables' = processing_tables \cup made.tab
    /\ ss_pc' = "done"
    /\ ss_error' = "statement"
    /\ UNCHANGED <<tables_to_transfer, ss_idx, problems, coreVars>>

\* the loop is over
ss_returns ==
    /\ ss_pc = "create"
    /\ ss_idx > Len(tables_to_transfer)
    /\ ss_pc' = "done"
    /\ UNCHANGED <<tables_to_transfer, ss_idx, problems, streams, processing_tables,
                   ss_error, coreVars>>

NextSource ==
    \/ ss_no_tables
    \/ ss_find_problems
    \/ ss_create_stream_objects
    \/ ss_create_raises
    \/ ss_returns

SpecSource == InitSource /\ [][NextSource]_vars

\* tables of the list that have a problem: a cdc_type that is none of the
\* three policies in any letter case, or STANDARD_STREAM over a table with a
\* geometry or geography column
ProblemTables ==
    {i \in 1..Len(tables_to_transfer) :
        LET info == tables_to_transfer[i]
        IN \/ info.cdc # NoKey /\ Upper(info.cdc) \notin Policies
           \/ Upper(info.cdc) = "STANDARD_STREAM" /\ info.geo}

\* C23: when a table of the list has a problem, source setup creates no stream
\* and no processing table for any table of the list, and it ends with a
\* single error that reports the problems of all the tables that have one.
C23_ValidatesBeforeCreating ==
    ProblemTables # {} =>
        /\ streams = {} /\ processing_tables = {}
        /\ ss_pc \notin {"create"}
        /\ ss_pc = "done" =>
              /\ ss_error = "ValueError"
              /\ {problems[j] : j \in 1..Len(problems)} = ProblemTables
              /\ Len(problems) = Cardinality(ProblemTables)

\* two tables with a problem were reported together
C23_Witness ==
    /\ ss_pc = "done" /\ ss_error = "ValueError"
    /\ Len(problems) = 2

\* ---------------------------------------------------------------- schema synchronisation
\* transfer_schema (src/src/schema_sync.py) and the DDL methods of the target,
\* which a client may also call itself, outside a transaction, on a warehouse
\* it has connected (connect and disconnect of the connection interface).  ts_tables holds the names of the tables to transfer; what the
\* table_info and the source schema of a table say is drawn when the loop
\* reaches the table.
SurrogateKey == "MELCHI_ROW_ID"

schemaRest == <<log, srcOffset, staging, srcTxn, wOffset, wStaging, tgtRows, updatedAt, wRows,
                wUpdatedAt, raw_cdc_type, policy, syncVars, ssVars, last_call, handler, via, etl_id,
                handle_deletes, cycles, pc, completed, delQ, insQ, hiVars>>

\* a table_info with what the source schema says: the configured cdc_type and
\* whether the table declares a primary key
SchemaInfos ==
    [cdc : {NoKey, "Standard_Stream", "APPEND_ONLY_STREAM", "UNSUPPORTED_TYPE"}, pk : BOOLEAN]

InitSchema ==
    /\ \E n \in {0, MaxCycles} : CycleInitAfter(n)
    /\ raw_cdc_type = "FULL_REFRESH" /\ policy = "FULL_REFRESH"
    /\ SyncOff /\ SourceSetupOff
    /\ ts_pc = "idle" /\ ts_tables = <<>> /\ ts_idx = 0 /\ replace_existing = FALSE
    /\ tgtSchema = EmptyDb /\ wSchema = EmptyDb
    /\ ts_error = "none" /\ ts_raised = FALSE /\ ts_pre = EmptyDb
    /\ last_ct = NoCall /\ ts_ops = 0

\* get_schema of the source: the columns of the table as format_schema_row gives them
SourceSchema(info) ==
    <<[name |-> "ID", nullable |-> FALSE, primary_key |-> info.pk],
      [name |-> "NAME", nullable |-> TRUE, primary_key |-> FALSE]>>

\* generate_target_schema: every column with its type mapped, in order
generate_target_schema(source_schema) ==
    [j \in 1..Len(source_schema) |->
        [name |-> source_schema[j].name, nullable |-> source_schema[j].nullable,
         primary_key |-> source_schema[j].primary_key]]

\* create_table, lines 75-78 and 94: the names of the primary key columns
PrimaryKeys(schema) ==
    LET IsKey(c) == c.primary_key
        ks == SelectSeq(schema, IsKey)
    IN [j \in 1..Len(ks) |-> ks[j].name]

\* the surrogate key added for every table without a primary key
TargetColumns_AnyPolicy(cdc_type, target_schema) ==
    IF Len(PrimaryKeys(target_schema)) = 0
    THEN Append(target_schema, [name |-> SurrogateKey, nullable |-> FALSE, primary_key |-> TRUE])
    ELSE target_schema

\* create_table, lines 85-94: MELCHI_ROW_ID is appended when no column is a
\* primary key and the cdc_type is STANDARD_STREAM
TargetColumns(cdc_type, target_schema) ==
    IF Len(PrimaryKeys(target_schema)) = 0 /\ cdc_type = "STANDARD_STREAM"
    THEN Append(target_schema, [name |-> SurrogateKey, nullable |-> FALSE, primary_key |-> TRUE])
    ELSE target_schema

\* create_table without the DELETE FROM captured_tables
DeleteCaptured_Nothing(db, i) == db

\* DELETE FROM captured_tables WHERE schema_name = ... and table_name = ...
DeleteCaptured(db, i) ==
    LET Keep(r) == r.table # i
    IN [db EXCEPT !.captured_tables.rows = SelectSeq(@, Keep)]

\* statements of create_table that can be executed on db: the DELETEs need
\* the change tracking tables
Runnable(db) ==
    IF ~db.captured_tables.exists THEN 0..1
    ELSE IF ~db.source_columns.exists THEN 0..2
    ELSE 0..5

\* create_table without the early return of lines 65-66
create_table_AlwaysCreates(db, i, info, replace, n) ==
    IF FALSE
    THEN [db |-> db, result |-> "skipped"]
    ELSE LET r == get_cdc_type(info.cdc)
         IN IF r.raises
            THEN [db |-> db, result |-> "raised"]
            ELSE LET source_schema == SourceSchema(info)
                     cols == TargetColumns(r.val, generate_target_schema(source_schema))
                     \* CREATE [OR REPLACE] TABLE, by generate_create_table_statement
                     d1 == IF n < 1 THEN db
                           ELSE [db EXCEPT !.tbl[i] =
                                    [j \in 1..Len(cols) |->
                                        [name |-> cols[j].name, nullable |-> cols[j].nullable]]]
                     \* DELETE FROM captured_tables
                     d2 == IF n < 2 THEN d1 ELSE DeleteCaptured(d1, i)
                     \* DELETE FROM source_columns WHERE table_schema = ... and table_name = ...
                     d3 == IF n < 3 THEN d2
                           ELSE [d2 EXCEPT !.source_columns.rows = {q \in @ : q.table # i}]
                     \* INSERT INTO captured_tables VALUES (schema, table, ts, ts, primary keys, cdc_type)
                     d4 == IF n < 4 THEN d3
                           ELSE [d3 EXCEPT !.captured_tables.rows =
                                    Append(@, [table |-> i, primary_keys |-> PrimaryKeys(cols),
                                               cdc_type |-> r.val])]
                     \* INSERT INTO source_columns VALUES (one row per column of the source schema)
                     d5 == IF n < 5 THEN d4
                           ELSE [d4 EXCEPT !.source_columns.rows =
                                    @ \cup {[table |-> i, column |-> source_schema[j].name,
                                             primary_key |-> source_schema[j].primary_key]
                                                : j \in 1..Len(source_schema)}]
                 IN [db |-> d5, result |-> IF n = 5 THEN "ok" ELSE "raised"]

\* DuckDBWarehouse.create_table with the first n of its five statements
\* executed; with n < 5 the next statement raised
create_table(db, i, info, replace, n) ==
    IF ~replace /\ db.tbl[i] # <<>>
    THEN [db |-> db, result |-> "skipped"]
    ELSE LET r == get_cdc_type(info.cdc)
         IN IF r.raises
            THEN [db |-> db, result |-> "raised"]
            ELSE LET source_schema == SourceSchema(info)
                     cols == TargetColumns(r.val, generate_target_schema(source_schema))
                     \* CREATE [OR REPLACE] TABLE, by generate_create_table_statement
                     d1 == IF n < 1 THEN db
                           ELSE [db EXCEPT !.tbl[i] =
                                    [j \in 1..Len(cols) |->
                                        [name |-> cols[j].name, nullable |-> cols[j].nullable]]]
                     \* DELETE FROM captured_tables
                     d2 == IF n < 2 THEN d1 ELSE DeleteCaptured(d1, i)
                     \* DELETE FROM source_columns WHERE table_schema = ... and table_name = ...
                     d3 == IF n < 3 THEN d2
                           ELSE [d2 EXCEPT !.source_columns.rows = {q \in @ : q.table # i}]
                     \* INSERT INTO captured_tables VALUES (schema, table, ts, ts, primary keys, cdc_type)
                     d4 == IF n < 4 THEN d3
                           ELSE [d3 EXCEPT !.captured_tables.rows =
                                    Append(@, [table |-> i, primary_keys |-> PrimaryKeys(cols),
                                               cdc_type |-> r.val])]
                     \* INSERT INTO source_columns VALUES (one row per column of the source schema)
                     d5 == IF n < 5 THEN d4
                           ELSE [d4 EXCEPT !.source_columns.rows =
                                    @ \cup {[table |-> i, column |-> source_schema[j].name,
                                             primary_key |-> source_schema[j].primary_key]
                                                : j \in 1..Len(source_schema)}]
                 IN [db |-> d5, result |-> IF n = 5 THEN "ok" ELSE "raised"]

\* the captured_tables rows of table i
CapturedRows(db, i) ==
    LET Of(r) == r.table = i
    IN SelectSeq(db.captured_tables.rows, Of)

\* DuckDBWarehouse.setup_target_environment with the first n of its two
\* CREATE TABLE statements executed: CREATE OR REPLACE TABLE with
\* replace_existing, CREATE TABLE IF NOT EXISTS without
setup_target_environment(db, replace, n) ==
    LET CreateTrackingTable(t, none) ==
            IF replace \/ ~t.exists THEN [exists |-> TRUE, rows |-> none] ELSE t
        d1 == IF n >= 1
              THEN [db EXCEPT !.captured_tables = CreateTrackingTable(@, <<>>)]
              ELSE db
    IN IF n >= 2
       THEN [d1 EXCEPT !.source_columns = CreateTrackingTable(@, {})]
       ELSE d1

\* setup_target_environment creating etl_events anew when replace_existing is set
SetupEvents_Replaced(events, replace) == IF replace THEN {} ELSE events

\* setup_target_environment: no statement of it names etl_events
SetupEvents(events, replace) == events

\* transfer_schema(config, tables) is called, with a list that names no table
\* twice: both warehouses are constructed
ts_transfer_schema ==
    /\ ts_pc = "idle" /\ ~tgtConn /\ ~srcConn
    /\ ts_ops < MaxOps
    /\ ts_tables' \in {<<>>} \cup {<<t>> : t \in TableNames}
                           \cup {p \in TableNames \X TableNames : p[1] # p[2]}
    /\ replace_existing' \in BOOLEAN
    /\ ts_pc' = "s_connect" /\ ts_idx' = 0
    /\ ts_pre' = tgtSchema
    /\ last_ct' = NoCall
    /\ ts_ops' = ts_ops + 1
    /\ UNCHANGED <<srcConn, srcOpen, tgtConn, tgtOpen, tgtTxn, etlEvents, wEvents, tgtSchema,
                   wSchema, ts_error, ts_raised, schemaRest>>

\* line 9
ts_source_connect ==
    /\ ts_pc = "s_connect"
    /\ srcConn' = TRUE /\ srcOpen' = srcOpen + 1
    /\ ts_pc' = "t_connect"
    /\ UNCHANGED <<tgtConn, tgtOpen, tgtTxn, etlEvents, wEvents, ts_tables, replace_existing,
                   ts_pre, ts_ops, ts_idx, tgtSchema, wSchema, ts_error, ts_raised, last_ct,
                   schemaRest>>

\* line 10
ts_target_connect ==
    /\ ts_pc = "t_connect"
    /\ tgtConn' = TRUE /\ tgtOpen' = tgtOpen + 1
    /\ ts_pc' = "begin"
    /\ UNCHANGED <<srcConn, srcOpen, tgtTxn, etlEvents, wEvents, ts_tables, replace_existing,
                   ts_pre, ts_ops, ts_idx, tgtSchema, wSchema, ts_error, ts_raised, last_ct,
                   schemaRest>>

\* lines 9-10: a connect raises, with the connection opened or not; the outer
\* try has no except, control goes to the finally block
ts_connect_raises ==
    /\ ts_pc \in {"s_connect", "t_connect"}
    /\ \E opened \in BOOLEAN :
          IF ts_pc = "s_connect"
          THEN /\ srcConn' = opened /\ srcOpen' = (IF opened THEN srcOpen + 1 ELSE srcOpen)
               /\ UNCHANGED <<tgtConn, tgtOpen>>
          ELSE /\ tgtConn' = opened /\ tgtOpen' = (IF opened THEN tgtOpen + 1 ELSE tgtOpen)
               /\ UNCHANGED <<srcConn, srcOpen>>
    /\ ts_error' = ts_pc /\ ts_raised' = TRUE
    /\ ts_pc' = "fin_s"
    /\ UNCHANGED <<tgtTxn, etlEvents, wEvents, ts_tables, replace_existing, ts_pre, ts_ops, ts_idx,
                   tgtSchema, wSchema, last_ct, schemaRest>>

\* line 16: target_warehouse.begin_transaction()
ts_begin_transaction ==
    /\ ts_pc = "begin"
    /\ tgtTxn' = TRUE
    /\ wSchema' = tgtSchema /\ wEvents' = etlEvents
    /\ ts_pc' = "setup_env"
    /\ UNCHANGED <<srcConn, srcOpen, tgtConn, tgtOpen, etlEvents, ts_tables, replace_existing,
                   ts_pre, ts_ops, ts_idx, tgtSchema, ts_error, ts_raised, last_ct, schemaRest>>

\* line 18: target_warehouse.setup_target_environment()
ts_setup_target_environment ==
    /\ ts_pc = "setup_env"
    /\ wSchema' = setup_target_environment(wSchema, replace_existing, 2)
    /\ wEvents' = SetupEvents(wEvents, replace_existing)
    /\ ts_idx' = 1
    /\ ts_pc' = "table"
    /\ UNCHANGED <<srcConn, srcOpen, tgtConn, tgtOpen, tgtTxn, etlEvents, ts_tables,
                   replace_existing, ts_pre, ts_ops, tgtSchema, ts_error, ts_raised, last_ct,
                   schemaRest>>

\* lines 19-31, one iteration: get_schema, generate_target_schema, create_table
ts_create_table ==
    /\ ts_pc = "table"
    /\ ts_idx <= Len(ts_tables)
    /\ 5 \in Runnable(wSchema)
    /\ \E info \in SchemaInfos :
          LET c == create_table(wSchema, ts_tables[ts_idx], info, replace_existing, 5)
          IN /\ c.result \in {"ok", "skipped"}
             /\ wSchema' = c.db
             /\ last_ct' = [table |-> ts_tables[ts_idx], replace |-> replace_existing,
                           existed |-> wSchema.tbl[ts_tables[ts_idx]] # <<>>,
                           registered |-> Len(CapturedRows(wSchema, ts_tables[ts_idx])) > 0, result |-> c.result]
    /\ ts_idx' = ts_idx + 1
    /\ UNCHANGED <<srcConn, srcOpen, tgtConn, tgtOpen, tgtTxn, etlEvents, wEvents, ts_tables,
                   replace_existing, ts_pre, ts_ops, ts_pc, tgtSchema, ts_error, ts_raised,
                   schemaRest>>

\* the for loop is over
ts_tables_done ==
    /\ ts_pc = "table"
    /\ ts_idx > Len(ts_tables)
    /\ ts_pc' = "commit"
    /\ UNCHANGED <<srcConn, srcOpen, tgtConn, tgtOpen, tgtTxn, etlEvents, wEvents, ts_tables,
                   replace_existing, ts_pre, ts_ops, ts_idx, tgtSchema, wSchema, ts_error,
                   ts_raised, last_ct, schemaRest>>

\* line 33: target_warehouse.commit_transaction()
ts_commit_transaction ==
    /\ ts_pc = "commit"
    /\ tgtSchema' = Committed(tgtSchema, wSchema)
    /\ etlEvents' = Committed(etlEvents, wEvents)
    /\ tgtTxn' = FALSE
    /\ ts_pc' = "fin_s"
    /\ UNCHANGED <<srcConn, srcOpen, tgtConn, tgtOpen, wEvents, ts_tables, replace_existing,
                   ts_pre, ts_ops, ts_idx, wSchema, ts_error, ts_raised, last_ct, schemaRest>>

\* line 16, 18 or 33 raises: no transaction is begun, setup_target_environment
\* stops after n of its statements, nothing is committed
ts_step_raises ==
    /\ ts_pc \in {"begin", "setup_env", "commit"}
    /\ \E n \in 0..1 :
          wSchema' = (IF ts_pc = "setup_env"
                      THEN setup_target_environment(wSchema, replace_existing, n)
                      ELSE wSchema)
    /\ ts_error' = ts_pc
    /\ ts_pc' = "x_rollback"
    /\ UNCHANGED <<srcConn, srcOpen, tgtConn, tgtOpen, tgtTxn, etlEvents, wEvents, ts_tables,
                   replace_existing, ts_pre, ts_ops, ts_idx, tgtSchema, ts_raised, last_ct,
                   schemaRest>>

\* lines 21-25 raise: get_schema fails, or create_table raises on the
\* cdc_type or after n of its statements
ts_create_table_raises ==
    /\ ts_pc = "table"
    /\ ts_idx <= Len(ts_tables)
    /\ \E info \in SchemaInfos, n \in Runnable(wSchema) \ {5} :
          LET c == create_table(wSchema, ts_tables[ts_idx], info, replace_existing, n)
          IN /\ wSchema' = (IF c.result = "raised" THEN c.db ELSE wSchema)
             /\ last_ct' = [table |-> ts_tables[ts_idx], replace |-> replace_existing,
                           existed |-> wSchema.tbl[ts_tables[ts_idx]] # <<>>,
                           registered |-> Len(CapturedRows(wSchema, ts_tables[ts_idx])) > 0, result |-> "raised"]
    /\ ts_error' = ts_pc
    /\ ts_pc' = "x_rollback"
    /\ UNCHANGED <<srcConn, srcOpen, tgtConn, tgtOpen, tgtTxn, etlEvents, wEvents, ts_tables,
                   replace_existing, ts_pre, ts_ops, ts_idx, tgtSchema, ts_raised, schemaRest>>

\* an except block that commits what the transaction has done so far
ts_rollback_transaction_Commits ==
    /\ ts_pc = "x_rollback"
    /\ tgtSchema' = (IF tgtTxn THEN Committed(tgtSchema, wSchema) ELSE tgtSchema)
    /\ etlEvents' = (IF tgtTxn THEN Committed(etlEvents, wEvents) ELSE etlEvents)
    /\ tgtTxn' = FALSE
    /\ ts_raised' = TRUE
    /\ last_ct' = NoCall
    /\ ts_pc' = "fin_s"
    /\ UNCHANGED <<srcConn, srcOpen, tgtConn, tgtOpen, wEvents, ts_tables, replace_existing,
                   ts_pre, ts_ops, ts_idx, wSchema, ts_error, schemaRest>>

\* lines 35-37: rollback_transaction, print, raise; a rollback with no
\* transaction open changes nothing, whether or not it raises
ts_rollback_transaction ==
    /\ ts_pc = "x_rollback"
    /\ tgtSchema' = (IF tgtTxn THEN RolledBack(tgtSchema, wSchema) ELSE tgtSchema)
    /\ etlEvents' = (IF tgtTxn THEN RolledBack(etlEvents, wEvents) ELSE etlEvents)
    /\ tgtTxn' = FALSE
    /\ ts_raised' = TRUE
    /\ last_ct' = NoCall
    /\ ts_pc' = "fin_s"
    /\ UNCHANGED <<srcConn, srcOpen, tgtConn, tgtOpen, wEvents, ts_tables, replace_existing,
                   ts_pre, ts_ops, ts_idx, wSchema, ts_error, schemaRest>>

\* line 39: source_warehouse.disconnect()
ts_source_disconnect ==
    /\ ts_pc = "fin_s"
    /\ srcConn' = FALSE /\ srcOpen' = (IF srcConn THEN srcOpen - 1 ELSE srcOpen)
    /\ ts_pc' = "fin_t"
    /\ UNCHANGED <<tgtConn, tgtOpen, tgtTxn, etlEvents, wEvents, ts_tables, replace_existing,
                   ts_pre, ts_ops, ts_idx, tgtSchema, wSchema, ts_error, ts_raised, last_ct,
                   schemaRest>>

\* line 40: target_warehouse.disconnect(); closing discards an open
\* transaction.  transfer_schema returns or lets the exception go, and its
\* locals are gone
ts_target_disconnect ==
    /\ ts_pc = "fin_t"
    /\ tgtConn' = FALSE /\ tgtOpen' = (IF tgtConn THEN tgtOpen - 1 ELSE tgtOpen)
    /\ tgtSchema' = (IF tgtTxn THEN RolledBack(tgtSchema, wSchema) ELSE tgtSchema)
    /\ etlEvents' = (IF tgtTxn THEN RolledBack(etlEvents, wEvents) ELSE etlEvents)
    /\ tgtTxn' = FALSE
    /\ wSchema' = tgtSchema' /\ wEvents' = etlEvents'
    /\ ts_pc' = "idle" /\ ts_tables' = <<>> /\ ts_idx' = 0 /\ replace_existing' = FALSE
    /\ ts_error' = "none" /\ ts_raised' = FALSE /\ ts_pre' = EmptyDb
    /\ last_ct' = NoCall
    /\ UNCHANGED <<srcConn, srcOpen, ts_ops, schemaRest>>

\* the client calls setup_target_environment, outside a transaction; n of the
\* statements are executed
client_setup_target_environment ==
    /\ ts_pc = "idle" /\ tgtConn
    /\ ts_ops < MaxOps
    /\ \E replace \in BOOLEAN, n \in 0..2 :
          /\ tgtSchema' = setup_target_environment(tgtSchema, replace, n)
          /\ etlEvents' = SetupEvents(etlEvents, replace)
    /\ wSchema' = tgtSchema' /\ wEvents' = etlEvents'
    /\ last_ct' = NoCall
    /\ ts_ops' = ts_ops + 1
    /\ UNCHANGED <<srcConn, srcOpen, tgtConn, tgtOpen, tgtTxn, ts_pc, ts_tables, ts_idx,
                   replace_existing, ts_error, ts_raised, ts_pre, schemaRest>>

\* the client calls create_table for the table with descriptor d, outside a
\* transaction; n of the statements are executed
client_create_table_of(d) ==
    /\ ts_pc = "idle" /\ tgtConn
    /\ ts_ops < MaxOps
    /\ \E info \in SchemaInfos, replace \in BOOLEAN, n \in Runnable(tgtSchema) :
          LET i == get_full_table_name(d)
              c == create_table(tgtSchema, i, info, replace, n)
          IN /\ tgtSchema' = c.db
             /\ last_ct' = [table |-> i, replace |-> replace, existed |-> tgtSchema.tbl[i] # <<>>,
                           registered |-> Len(CapturedRows(tgtSchema, i)) > 0, result |-> c.result]
    /\ wSchema' = tgtSchema'
    /\ ts_ops' = ts_ops + 1
    /\ UNCHANGED <<srcConn, srcOpen, tgtConn, tgtOpen, tgtTxn, etlEvents, wEvents, ts_pc,
                   ts_tables, ts_idx, replace_existing, ts_error, ts_raised, ts_pre, schemaRest>>

\* the client calls create_table for a table of the configuration
client_create_table == \E d \in Descriptors : client_create_table_of(d)

NextSchema ==
    \/ ts_transfer_schema
    \/ ts_source_connect
    \/ ts_target_connect
    \/ ts_connect_raises
    \/ ts_begin_transaction
    \/ ts_setup_target_environment
    \/ ts_create_table
    \/ ts_tables_done
    \/ ts_commit_transaction
    \/ ts_step_raises
    \/ ts_create_table_raises
    \/ ts_rollback_transaction
    \/ ts_source_disconnect
    \/ ts_target_disconnect
    \/ (ts_pc = "idle" /\ ~tgtConn /\ duckdb_connect)
    \/ (ts_pc = "idle" /\ tgtConn /\ duckdb_disconnect)
    \/ client_setup_target_environment
    \/ client_create_table

SpecSchema == InitSchema /\ [][NextSchema]_vars

\* C24: transfer_schema creates the tables inside one target transaction: the
\* loop runs with the transaction open and nothing of it is committed before
\* the commit; when creating a table fails, the transaction is rolled back, so
\* that the committed target is what it was when transfer_schema was called
\* (no table, no captured_tables row and no source_columns row of this
\* invocation remains), and the error is raised again.
C24_FailureRollsBackAndReraises ==
    /\ ts_pc = "table" => tgtTxn
    /\ ts_pc \in {"setup_env", "table", "commit", "x_rollback"} => tgtSchema = ts_pre
    /\ (ts_pc \in {"fin_s", "fin_t"} /\ ts_error = "table")
          => (tgtSchema = ts_pre /\ ~tgtTxn /\ ts_raised)

\* the second table of the list failed after the first, a new table, was
\* created and registered in the transaction
C24_Witness ==
    /\ ts_pc = "fin_s" /\ ts_error = "table" /\ ts_idx = 2
    /\ ts_pre.tbl[ts_tables[1]] = <<>>
    /\ wSchema.tbl[ts_tables[1]] # <<>>
    /\ Len(wSchema.captured_tables.rows) > Len(ts_pre.captured_tables.rows)
    /\ tgtSchema.tbl[ts_tables[1]] = <<>>

\* what the connection of the target sees: inside the transaction its own work
Visible == IF tgtTxn THEN wSchema ELSE tgtSchema

\* the primary key columns the source schema of table i declares, as source_columns records them
DeclaredKeys(db, i) ==
    {r.column : r \in {q \in db.source_columns.rows : q.table = i /\ q.primary_key}}

\* the names of the columns of a table
ColumnNames(cols) == {cols[j].name : j \in 1..Len(cols)}

C26_OneCapturedRowPerTable ==
    \A i \in TableNames :
        /\ Len(CapturedRows(tgtSchema, i)) <= 1
        /\ Len(CapturedRows(wSchema, i)) <= 1

\* create_table has replaced a table that was registered already
C26_Witness ==
    /\ last_ct.result = "ok" /\ last_ct.existed /\ last_ct.registered
    /\ Len(CapturedRows(Visible, last_ct.table)) = 1

CreateTableCall ==
    \/ ts_pc = "table" /\ ts_idx' = ts_idx + 1
    \/ ts_pc = "table" /\ ts_pc' = "x_rollback"
    \/ ts_pc = "idle" /\ ts_ops' = ts_ops + 1 /\ last_ct'.result # "none"

\* C38: a create_table call with replace_existing false on a table that exists
\* changes nothing: the definition of the table, the captured_tables rows and
\* the source_columns rows, committed and in the open transaction, and the rows
\* of the table are what they were before the call.
C38_ExistingTableKept ==
    [][(/\ ~last_ct'.replace /\ last_ct'.existed
        /\ CreateTableCall)
       => (/\ tgtSchema' = tgtSchema /\ wSchema' = wSchema
           /\ tgtRows' = tgtRows /\ wRows' = wRows)]_vars

\* create_table has returned early on a registered table
C38_Witness ==
    /\ last_ct.result = "skipped" /\ ~last_ct.replace
    /\ last_ct.existed /\ last_ct.registered
    /\ Visible.tbl[last_ct.table] # <<>>

\* C37: the source transaction of a cycle is committed only with the staging
\* table truncated in it, so, whatever cycles succeeded, failed or ended
\* half-committed, the committed staging table is empty whenever no cycle is
\* in progress.
C37_StagingEmptyAtRest ==
    /\ pc = "s_commit" => wStaging = {}
    /\ sCommitCalled => wStaging = {}
    /\ AtRest => staging = {}

\* at rest after a stream cycle that staged and applied rows and committed
\* the source, following a cycle that did not succeed
C37_Witness ==
    /\ AtRest /\ handler = "stream" /\ cycles >= 2
    /\ outcome = "success" /\ prevOutcome \notin {"success", "none"}
    /\ sCommitCalled /\ applyLog # <<>>
    /\ staging = {}

\* C36: the coordinator invokes rollback_transaction on a warehouse only while
\* that warehouse is connected and has a transaction open that this cycle began
\* and has not committed.
C36_RollbackOnlyWithOpenTransaction ==
    /\ pc = "x_t_rollback" => (tgtConn /\ tgtTxn /\ ~tCommitted)
    /\ pc = "x_s_rollback" => (srcConn /\ srcTxn /\ ~sCommitCalled)

\* C31: applying a delete batch removes from the target table, inside the
\* transaction, every row whose effective key is the key of the batch and
\* leaves every other row, and the committed table, as they were.
C31_DeleteBatchRemovesExactlyItsKeys ==
    [][process_stream_deletes =>
          /\ \A c \in 1..Len(log) :
                /\ KeyOf(c) = KeyOf(Head(delQ)) => wRows'[c] = 0
                /\ KeyOf(c) # KeyOf(Head(delQ)) => wRows'[c] = wRows[c]
          /\ tgtRows' = tgtRows]_vars

\* a delete batch has removed a row of a table that holds another row
C31_Witness ==
    /\ pc = "del_loop" /\ applyLog # <<>> /\ applyLog[Len(applyLog)] = "D"
    /\ \E c \in txnApplied :
          /\ log[c].act = "DELETE"
          /\ tgtRows[RowDeletedBy(c)] > 0 /\ wRows[RowDeletedBy(c)] = 0
    /\ \E c \in 1..Len(log) : wRows[c] > 0

\* C35: a create_table call for one table descriptor leaves the target table
\* and the captured_tables and source_columns rows of every other descriptor,
\* one that differs in the database, the schema or the table, unchanged.
C35_OtherDescriptorsUnchanged ==
    [][\A d \in Descriptors :
          client_create_table_of(d) =>
             \A e \in Descriptors \ {d} :
                LET i == get_full_table_name(e)
                IN /\ tgtSchema'.tbl[i] = tgtSchema.tbl[i]
                   /\ CapturedRows(tgtSchema', i) = CapturedRows(tgtSchema, i)
                   /\ {q \in tgtSchema'.source_columns.rows : q.table = i}
                         = {q \in tgtSchema.source_columns.rows : q.table = i}]_vars

\* ---------------------------------------------------------------- functions called on their own
\* TypeMapper.snowflake_to_duckdb and SnowflakeWarehouse.cleanup_source, called
\* with any argument; neither keeps state, one call is looked at.  A type string is a sequence of tokens, each a name, a
\* digit or one of the characters ( ) and the comma.
MaxTypeLen == 3

TypeTokens ==
    {"NUMBER", "TIMESTAMP_NTZ", "VECTOR", "VARCHAR", "UNSUPPORTED_TYPE", "(", ")", ",", "9"}

\* str.split(sep): the pieces of s between the occurrences of sep
RECURSIVE Split(_, _)
Split(s, sep) ==
    IF \A j \in 1..Len(s) : s[j] # sep
    THEN <<s>>
    ELSE LET k == CHOOSE j \in 1..Len(s) : s[j] = sep /\ \A i \in 1..(j - 1) : s[i] # sep
         IN <<SubSeq(s, 1, k - 1)>> \o Split(SubSeq(s, k + 1, Len(s)), sep)

\* TypeMapper.snowflake_to_duckdb: type_data[1] of the code is type_data[2]
\* here; s[:-1] drops the last token, which is the last character when the
\* token is a digit, a parenthesis or a comma
snowflake_to_duckdb(snowflake_type) ==
    LET type_data == Split(snowflake_type, "(")
        main_type == type_data[1]
        TypeOf(v) == [raises |-> "none", val |-> v, warned |-> FALSE]
        Raises(e) == [raises |-> e, val |-> <<>>, warned |-> FALSE]
        DropLast(q) == SubSeq(q, 1, Len(q) - 1)
    IN IF main_type \in {<<"VARCHAR">>, <<"BOOLEAN">>, <<"DATE">>, <<"TIME">>}
       THEN TypeOf(main_type)
       ELSE IF main_type = <<"NUMBER">>
       THEN IF Len(type_data) < 2
            THEN Raises("IndexError")
            ELSE TypeOf(<<"DECIMAL", "(">> \o type_data[2])
       ELSE IF main_type = <<"FLOAT">> THEN TypeOf(<<"DOUBLE">>)
       ELSE IF main_type = <<"BINARY">> THEN TypeOf(<<"BLOB">>)
       ELSE IF main_type \in {<<"TIMESTAMP_TZ">>, <<"TIMESTAMP_LTZ">>}
       THEN TypeOf(<<"TIMESTAMPTZ">>)
       ELSE IF main_type = <<"TIMESTAMP_NTZ">>
       THEN IF Len(type_data) < 2
            THEN Raises("IndexError")
            ELSE LET arg == type_data[2]
                     precision == DropLast(arg)
                 IN \* int(...) of anything but digits raises
                    IF /\ arg # <<>> /\ arg[Len(arg)] \in {"(", ")", ",", "9"}
                       /\ precision # <<>>
                       /\ \A j \in 1..Len(precision) : precision[j] = "9"
                    THEN TypeOf(<<"TIMESTAMP", "(">> \o precision \o <<")">>)
                    ELSE Raises("ValueError")
       ELSE IF main_type \in {<<"VARIANT">>, <<"OBJECT">>, <<"ARRAY">>}
       THEN TypeOf(<<"JSON">>)
       ELSE IF main_type = <<"VECTOR">>
       THEN IF Len(type_data) < 2 \/ Len(Split(type_data[2], ",")) < 2
            THEN Raises("IndexError")
            ELSE LET parts == Split(type_data[2], ",")
                 IN TypeOf(parts[1] \o <<"[">> \o DropLast(parts[2]) \o <<"]">>)
       ELSE IF main_type \in {<<"GEOGRAPHY">>, <<"GEOMETRY">>}
       THEN TypeOf(<<"GEOMETRY">>)
       ELSE [raises |-> "none", val |-> <<"VARCHAR">>, warned |-> TRUE]

\* what cursor.execute("TRUNCATE TABLE ...") meets: the stream processing
\* table exists or not, and the exception the statement raises, if it raises
\* one.  Of the message of an exception only what cleanup_source looks for is
\* kept: whether it has the code 002003 and whether it has the words "does
\* not exist".  Without the table the statement fails with the error 002003,
\* object does not exist or not authorized.
TruncateOutcomes ==
    {o \in [exists : BOOLEAN,
            exc : [raised : BOOLEAN, code_002003 : BOOLEAN, does_not_exist : BOOLEAN]] :
        /\ ~o.exists => (o.exc.raised /\ o.exc.code_002003 /\ o.exc.does_not_exist)
        /\ ~o.exc.raised => (~o.exc.code_002003 /\ ~o.exc.does_not_exist)}

\* SnowflakeWarehouse.cleanup_source: what it executes and what it raises
snowflake_cleanup_source(raw, o) ==
    LET r == get_cdc_type(raw)
    IN IF r.raises
       THEN [truncate |-> FALSE, raises |-> "ValueError"]
       ELSE IF r.val \in {"APPEND_ONLY_STREAM", "STANDARD_STREAM"}
       THEN IF ~o.exc.raised
            THEN [truncate |-> TRUE, raises |-> "none"]
            ELSE IF o.exc.code_002003 \/ o.exc.does_not_exist
            THEN [truncate |-> TRUE, raises |-> "Stream processing table not found"]
            ELSE [truncate |-> TRUE, raises |-> "the exception of execute"]
       ELSE [truncate |-> FALSE, raises |-> "none"]

MaxEvents == 3

\* get_etl_ids returning the etl_ids of the rows of every table
duckdb_get_etl_ids_AllTables(events, table_info) ==
    SortedSeq({events[j].etl_id : j \in 1..Len(events)})

\* DuckDBWarehouse.get_etl_ids over the rows of etl_events: the distinct
\* etl_ids of the rows of the schema and table of table_info, as a list
duckdb_get_etl_ids(events, table_info) ==
    SortedSeq({events[j].etl_id :
                  j \in {k \in 1..Len(events) :
                            events[k].table = get_full_table_name(table_info)}})

InitCalls ==
    /\ CycleInit
    /\ raw_cdc_type = "FULL_REFRESH" /\ policy = "FULL_REFRESH"
    /\ SyncOff /\ SetupOff

\* TypeMapper.snowflake_to_duckdb(snowflake_type) is called
call_snowflake_to_duckdb ==
    /\ last_call.fn = "none"
    /\ \E t \in SeqsUpTo(TypeTokens, MaxTypeLen) :
          last_call' = [fn |-> "snowflake_to_duckdb", args |-> t, out |-> snowflake_to_duckdb(t)]
    /\ UNCHANGED <<srcVars, tgtVars, raw_cdc_type, policy, syncVars, ssVars, tsVars, handler, via,
                   etl_id, handle_deletes, cycles, pc, completed, delQ, insQ, hiVars>>

\* source_warehouse.cleanup_source(table_info) is called on a connected warehouse
call_cleanup_source ==
    /\ last_call.fn = "none"
    /\ \E raw \in RawCdcTypes, o \in TruncateOutcomes :
          last_call' = [fn |-> "cleanup_source", args |-> [cdc_type |-> raw, execute |-> o],
                        out |-> snowflake_cleanup_source(raw, o)]
    /\ UNCHANGED <<srcVars, tgtVars, raw_cdc_type, policy, syncVars, ssVars, tsVars, handler, via,
                   etl_id, handle_deletes, cycles, pc, completed, delQ, insQ, hiVars>>

\* target_warehouse.get_etl_ids(table_info) is called on a target whose
\* etl_events table holds one row per cycle a table completed
call_get_etl_ids ==
    /\ last_call.fn = "none"
    /\ \E events \in SeqsUpTo([table : TableNames, etl_id : 1..MaxCycles], MaxEvents),
          table_info \in Descriptors :
          last_call' = [fn |-> "get_etl_ids",
                        args |-> [etl_events |-> events, table_info |-> table_info],
                        out |-> duckdb_get_etl_ids(events, table_info)]
    /\ UNCHANGED <<srcVars, tgtVars, raw_cdc_type, policy, syncVars, ssVars, tsVars, handler, via,
                   etl_id, handle_deletes, cycles, pc, completed, delQ, insQ, hiVars>>

NextCalls ==
    \/ call_snowflake_to_duckdb
    \/ call_cleanup_source
    \/ call_get_etl_ids

SpecCalls == InitCalls /\ [][NextCalls]_vars

\* C34: snowflake_to_duckdb returns a target type for every type string and
\* raises for none; a type it does not recognise gives VARCHAR and a warning.
C34_TypeMappingNeverFails ==
    last_call.fn = "snowflake_to_duckdb" =>
        /\ last_call.out.raises = "none"
        /\ last_call.out.val # <<>>
        /\ last_call.out.warned => last_call.out.val = <<"VARCHAR">>

\* C33: for a stream policy cleanup_source executes the TRUNCATE of the stream
\* processing table; when the table does not exist it raises the error that
\* tells the operator to run the setup, and when the statement fails for any
\* other reason it raises that exception as it is.
C33_OnlyMissingTableIsReworded ==
    (/\ last_call.fn = "cleanup_source"
     /\ Upper(last_call.args.cdc_type) \in {"APPEND_ONLY_STREAM", "STANDARD_STREAM"}) =>
        LET o == last_call.args.execute
        IN /\ last_call.out.truncate
           /\ ~o.exists => last_call.out.raises = "Stream processing table not found"
           /\ (o.exists /\ o.exc.raised) => last_call.out.raises = "the exception of execute"
           /\ ~o.exc.raised => last_call.out.raises = "none"

\* C32: the list get_etl_ids returns for a table holds every etl_id of an
\* etl_events row of the schema and table of that table, holds it once, and
\* holds no etl_id that only rows of other tables carry.
C32_EtlIdsOfThatTableOnly ==
    last_call.fn = "get_etl_ids" =>
        LET events == last_call.args.etl_events
            i == last_call.args.table_info[2]
            ids == last_call.out
        IN /\ \A j \in 1..Len(events) :
                 events[j].table = i => \E k \in 1..Len(ids) : ids[k] = events[j].etl_id
           /\ \A k \in 1..Len(ids) :
                 \E j \in 1..Len(events) : events[j].table = i /\ events[j].etl_id = ids[k]
           /\ \A k, l \in 1..Len(ids) : ids[k] = ids[l] => k = l

\* the table has two rows with one etl_id and another table has a row with
\* an etl_id of its own
C32_Witness ==
    /\ last_call.fn = "get_etl_ids"
    /\ Len(last_call.out) = 1
    /\ \E j, k, l \in 1..Len(last_call.args.etl_events) :
          LET events == last_call.args.etl_events
          IN /\ j # k /\ events[j] = events[k]
             /\ events[j].table = last_call.args.table_info[2]
             /\ events[l].table # events[j].table /\ events[l].etl_id # events[j].etl_id

====
